---- MODULE Spec2Model ----
(***************************************************************************)
(* Compliance document discovery and extraction pipeline: the link         *)
(* classifier, the three-pass link discovery cascade, the retrying         *)
(* extraction-service client and the document extraction steps of          *)
(* scrapeWebsite, in its sequential variant (services/scrapingService.ts)  *)
(* and its concurrent variant (unnamed/part_001).                          *)
(***************************************************************************)
EXTENDS Integers, Sequences, FiniteSets, TLC

\* ------------------------------------------------------------------------
\* Strings.  A string is a sequence of one-character strings, so that
\* String.prototype.includes, trim and toLowerCase are computed on the
\* characters themselves.
\* ------------------------------------------------------------------------

\* String.prototype.includes: k occurs in s as a contiguous substring.
Includes(s, k) ==
    \E i \in 0..(Len(s) - Len(k)) : SubSeq(s, i + 1, i + Len(k)) = k

\* Lower-case mapping of one character (only A-Z occur in the anchor texts).
LowerOf(c) ==
    CASE c = "A" -> "a"
      [] c = "B" -> "b"
      [] c = "C" -> "c"
      [] c = "D" -> "d"
      [] c = "E" -> "e"
      [] c = "F" -> "f"
      [] c = "G" -> "g"
      [] c = "H" -> "h"
      [] c = "I" -> "i"
      [] c = "J" -> "j"
      [] c = "K" -> "k"
      [] c = "L" -> "l"
      [] c = "M" -> "m"
      [] c = "N" -> "n"
      [] c = "O" -> "o"
      [] c = "P" -> "p"
      [] c = "Q" -> "q"
      [] c = "R" -> "r"
      [] c = "S" -> "s"
      [] c = "T" -> "t"
      [] c = "U" -> "u"
      [] c = "V" -> "v"
      [] c = "W" -> "w"
      [] c = "X" -> "x"
      [] c = "Y" -> "y"
      [] c = "Z" -> "z"
      [] OTHER -> c

\* String.prototype.toLowerCase.
ToLowerCase(s) == [i \in 1..Len(s) |-> LowerOf(s[i])]

\* The white space characters String.prototype.trim removes (those that occur
\* in the texts of the model).
WhiteSpace == {" ", "\n", "\t"}

RECURSIVE TrimStart(_)
TrimStart(s) ==
    IF s = <<>> \/ Head(s) \notin WhiteSpace THEN s ELSE TrimStart(Tail(s))

RECURSIVE TrimEnd(_)
TrimEnd(s) ==
    IF s = <<>> \/ s[Len(s)] \notin WhiteSpace
    THEN s ELSE TrimEnd(SubSeq(s, 1, Len(s) - 1))

\* String.prototype.trim.
Trim(s) == TrimEnd(TrimStart(s))

\* ------------------------------------------------------------------------
\* Keyword lists of the three passes, as written in the find* functions.
\* ------------------------------------------------------------------------

\* findComplianceLinks, termsLink, link.text.includes(...)
MainTermsText ==
    { <<"t","e","r","m","s">>,
      <<"c","o","n","d","i","t","i","o","n","s">>,
      <<"t","o","s">>,
      <<"m","e","n","t","i","o","n","s"," ","l","é","g","a","l","e","s">>,
      <<"c","o","n","d","i","t","i","o","n","s"," ","g","é","n","é","r","a","l","e","s">>,
      <<"c","g","v">>,
      <<"c","g","u">> }

\* findComplianceLinks, termsLink, link.href.includes(...)
MainTermsHref ==
    { <<"t","e","r","m","s">>,
      <<"c","o","n","d","i","t","i","o","n","s">>,
      <<"m","e","n","t","i","o","n","s","-","l","e","g","a","l","e","s">>,
      <<"l","e","g","a","l">> }

\* findComplianceLinks, privacyLink, text
MainPrivacyText ==
    { <<"p","r","i","v","a","c","y">>,
      <<"v","i","e"," ","p","r","i","v","é","e">>,
      <<"d","o","n","n","é","e","s"," ","p","e","r","s","o","n","n","e","l","l","e","s">>,
      <<"c","o","n","f","i","d","e","n","t","i","a","l","i","t","é">> }

\* findComplianceLinks, privacyLink, href
MainPrivacyHref ==
    { <<"p","r","i","v","a","c","y">>,
      <<"c","o","n","f","i","d","e","n","t","i","a","l","i","t","e">>,
      <<"d","o","n","n","e","e","s","-","p","e","r","s","o","n","n","e","l","l","e","s">>,
      <<"r","g","p","d">> }

\* findComplianceLinks, cookieLink, text
MainCookieText ==
    { <<"c","o","o","k","i","e">>,
      <<"c","o","o","k","i","e","s">> }

\* findComplianceLinks, cookieLink, href
MainCookieHref ==
    { <<"c","o","o","k","i","e">>,
      <<"t","r","a","c","e","u","r","s">> }

\* findFooterLinks, termsLink, text
FooterTermsText ==
    { <<"t","e","r","m","s">>,
      <<"c","o","n","d","i","t","i","o","n","s">>,
      <<"m","e","n","t","i","o","n","s"," ","l","é","g","a","l","e","s">>,
      <<"c","g","u">> }

\* findFooterLinks, termsLink, href
FooterTermsHref ==
    { <<"l","e","g","a","l">>,
      <<"m","e","n","t","i","o","n","s">> }

\* findFooterLinks, privacyLink, text
FooterPrivacyText ==
    { <<"p","r","i","v","a","c","y">>,
      <<"c","o","n","f","i","d","e","n","t","i","a","l","i","t","é">>,
      <<"d","o","n","n","é","e","s">> }

\* findFooterLinks, privacyLink, href
FooterPrivacyHref ==
    { <<"p","r","i","v","a","c","y">>,
      <<"d","o","n","n","e","e","s">> }

\* findFooterLinks, cookieLink, text
FooterCookieText ==
    { <<"c","o","o","k","i","e">> }

\* findFooterLinks, cookieLink, href
FooterCookieHref ==
    { <<"c","o","o","k","i","e">> }

\* findMenuLinks, sub-page termsLink, text
MenuTermsText ==
    { <<"t","e","r","m","s">>,
      <<"c","o","n","d","i","t","i","o","n","s">>,
      <<"m","e","n","t","i","o","n","s"," ","l","é","g","a","l","e","s">> }

\* findMenuLinks, sub-page termsLink, href
MenuTermsHref ==
    { <<"l","e","g","a","l">> }

\* findMenuLinks, sub-page privacyLink, text
MenuPrivacyText ==
    { <<"p","r","i","v","a","c","y">>,
      <<"c","o","n","f","i","d","e","n","t","i","a","l","i","t","é">> }

\* findMenuLinks, sub-page privacyLink, href
MenuPrivacyHref ==
    { <<"r","g","p","d">> }

\* findMenuLinks, sub-page cookieLink, text
MenuCookieText ==
    { <<"c","o","o","k","i","e">> }

\* findMenuLinks, sub-page cookieLink, href
MenuCookieHref ==
    { <<"c","o","o","k","i","e">> }

\* findMenuLinks, candidate secondary pages, text
MenuPageText ==
    { <<"a","b","o","u","t">>,
      <<"à"," ","p","r","o","p","o","s">>,
      <<"l","e","g","a","l">>,
      <<"l","é","g","a","l">>,
      <<"j","u","r","i","d","i","q","u","e">>,
      <<"a","i","d","e">>,
      <<"h","e","l","p">> }

\* ------------------------------------------------------------------------
\* The anchors a page can hold.  An anchor is named by its index in these
\* two tables: its raw textContent and its resolved absolute href.
\* ------------------------------------------------------------------------
\*   1 terms, 2 privacy and cookies on one page, 3 cookies, 4 a page of the
\*   menu, 5 a privacy link only the footer keywords know, 6 a page of the
\*   menu whose href the terms keywords know, 7 a privacy link that is no
\*   cookie link
textContent ==
    << <<" ","T","e","r","m","s"," ","o","f"," ","S","e","r","v","i","c","e"," ">>,
       <<"P","r","i","v","a","c","y"," ","&"," ","C","o","o","k","i","e","s">>,
       <<"C","o","o","k","i","e","s">>,
       <<"A","b","o","u","t">>,
       <<"D","o","n","n","é","e","s">>,
       <<"L","e","g","a","l">>,
       <<"P", "r", "i", "v", "a", "c", "y", " ", "P", "o", "l", "i", "c", "y">> >>

href ==
    << <<"x",".","i","o","/","t","e","r","m","s">>,
       <<"x",".","i","o","/","p","r","i","v","a","c","y">>,
       <<"x",".","i","o","/","c","o","o","k","i","e","s">>,
       <<"x",".","i","o","/","a","b","o","u","t">>,
       <<"x",".","i","o","/","d","o","n","n","e","e","s">>,
       <<"x",".","i","o","/","l","e","g","a","l">>,
       <<"x", ".", "i", "o", "/", "p", "r", "i", "v", "a", "c", "y">> >>

\* ------------------------------------------------------------------------
\* Link Classifier
\* ------------------------------------------------------------------------

\* "Link | null": a link is held as the index of its anchor, null as 0.
null == 0

AnchorIds == 1..Len(textContent)

\* The {text, href} object page.evaluate builds for an anchor.
Link(a) == [text |-> ToLowerCase(Trim(textContent[a])), href |-> href[a]]

\* link.text.includes(k1) || ... || link.href.includes(h1) || ...
Matches(link, textKeys, hrefKeys) ==
    \/ \E k \in textKeys : Includes(link.text, k)
    \/ \E k \in hrefKeys : Includes(link.href, k)

isTermsLink(link) == Matches(link, MainTermsText, MainTermsHref)
isPrivacyLink(link) == Matches(link, MainPrivacyText, MainPrivacyHref)
isCookieLink(link) == Matches(link, MainCookieText, MainCookieHref)
isFooterTermsLink(link) == Matches(link, FooterTermsText, FooterTermsHref)
\* The footer pass testing the privacy keywords of the main page.
isFooterPrivacyLinkAsMain(link) == Matches(link, MainPrivacyText, MainPrivacyHref)
isFooterPrivacyLink(link) == Matches(link, FooterPrivacyText, FooterPrivacyHref)
isFooterCookieLink(link) == Matches(link, FooterCookieText, FooterCookieHref)
isSubPageTermsLink(link) == Matches(link, MenuTermsText, MenuTermsHref)
isSubPagePrivacyLink(link) == Matches(link, MenuPrivacyText, MenuPrivacyHref)
isSubPageCookieLink(link) == Matches(link, MenuCookieText, MenuCookieHref)
isMenuPage(link) == \E k \in MenuPageText : Includes(link.text, k)

\* The anchors each predicate accepts.
MainTermsAnchors == {a \in AnchorIds : isTermsLink(Link(a))}
MainPrivacyAnchors == {a \in AnchorIds : isPrivacyLink(Link(a))}
MainCookieAnchors == {a \in AnchorIds : isCookieLink(Link(a))}
FooterTermsAnchors == {a \in AnchorIds : isFooterTermsLink(Link(a))}
FooterPrivacyAnchors == {a \in AnchorIds : isFooterPrivacyLink(Link(a))}
FooterCookieAnchors == {a \in AnchorIds : isFooterCookieLink(Link(a))}
SubPageTermsAnchors == {a \in AnchorIds : isSubPageTermsLink(Link(a))}
SubPagePrivacyAnchors == {a \in AnchorIds : isSubPagePrivacyLink(Link(a))}
SubPageCookieAnchors == {a \in AnchorIds : isSubPageCookieLink(Link(a))}
MenuPageAnchors == {a \in AnchorIds : isMenuPage(Link(a))}

\* Array.prototype.find(...) || null over the anchors accepted by a predicate.
\* Array.prototype.find read backwards: the last element accepted.
RECURSIVE findLast(_, _)
findLast(links, accepted) ==
    IF links = <<>> THEN null
    ELSE IF findLast(Tail(links), accepted) # null
         THEN findLast(Tail(links), accepted)
    ELSE IF Head(links) \in accepted THEN Head(links)
    ELSE null

\* Array.prototype.find: the first element accepted, else undefined (null).
RECURSIVE find(_, _)
find(links, accepted) ==
    IF links = <<>> THEN null
    ELSE IF Head(links) \in accepted THEN Head(links)
    ELSE find(Tail(links), accepted)

\* Array.prototype.filter.
RECURSIVE filter(_, _)
filter(links, accepted) ==
    IF links = <<>> THEN <<>>
    ELSE IF Head(links) \in accepted
         THEN <<Head(links)>> \o filter(Tail(links), accepted)
         ELSE filter(Tail(links), accepted)

\* A slice without its end: the whole array.
sliceAll(s, n) == s

\* Array.prototype.slice(0, n).
slice(s, n) == SubSeq(s, 1, IF Len(s) < n THEN Len(s) ELSE n)

NoLinks == [termsLink |-> null, privacyLink |-> null, cookieLink |-> null]

\* A classifier in which a link given to one slot is no longer eligible for
\* the slots after it.
findComplianceLinksExclusive(links) ==
    LET terms == find(links, MainTermsAnchors)
        privacy == find(links, MainPrivacyAnchors \ {terms})
    IN [termsLink   |-> terms,
        privacyLink |-> privacy,
        cookieLink  |-> find(links, MainCookieAnchors \ {terms, privacy})]

findComplianceLinks(links) ==
    [termsLink   |-> find(links, MainTermsAnchors),
     privacyLink |-> find(links, MainPrivacyAnchors),
     cookieLink  |-> find(links, MainCookieAnchors)]

findFooterLinks(links) ==
    [termsLink   |-> find(links, FooterTermsAnchors),
     privacyLink |-> find(links, FooterPrivacyAnchors),
     cookieLink  |-> find(links, FooterCookieAnchors)]

\* One sub-page of findMenuLinks: each local still null is searched for.
classifySubPage(found, links) ==
    [termsLink   |-> IF found.termsLink = null
                     THEN find(links, SubPageTermsAnchors) ELSE found.termsLink,
     privacyLink |-> IF found.privacyLink = null
                     THEN find(links, SubPagePrivacyAnchors) ELSE found.privacyLink,
     cookieLink  |-> IF found.cookieLink = null
                     THEN find(links, SubPageCookieAnchors) ELSE found.cookieLink]

\* if (termsLink && privacyLink && cookieLink) break;
foundAll(found) ==
    found.termsLink # null /\ found.privacyLink # null /\ found.cookieLink # null

\* menuLinks.slice(0, 3)
MenuPageLimit == 3

\* A gate that never lets the footer pass run.
needsFooterPassNever(main) == FALSE

\* scrapeWebsite: "if (!mainLinks.termsLink || !mainLinks.privacyLink || ...)"
needsFooterPass(main) ==
    main.termsLink = null \/ main.privacyLink = null \/ main.cookieLink = null

\* A gate that opens only when every category is missing.
needsMenuPassAll(main, footer) ==
    /\ (main.termsLink = null /\ footer.termsLink = null)
    /\ (main.privacyLink = null /\ footer.privacyLink = null)
    /\ (main.cookieLink = null /\ footer.cookieLink = null)

\* scrapeWebsite: "if ((!mainLinks.termsLink && !footerLinks.termsLink) || ...)"
needsMenuPass(main, footer) ==
    \/ (main.termsLink = null /\ footer.termsLink = null)
    \/ (main.privacyLink = null /\ footer.privacyLink = null)
    \/ (main.cookieLink = null /\ footer.cookieLink = null)

\* c || b || a: the latest pass wins.
lastNonNull(a, b, c) == IF c # null THEN c ELSE IF b # null THEN b ELSE a

\* a || b || c on Link | null values.
firstNonNull(a, b, c) == IF a # null THEN a ELSE IF b # null THEN b ELSE c

consolidate(main, footer, menu) ==
    [termsLink   |-> firstNonNull(main.termsLink, footer.termsLink, menu.termsLink),
     privacyLink |-> firstNonNull(main.privacyLink, footer.privacyLink, menu.privacyLink),
     cookieLink  |-> firstNonNull(main.cookieLink, footer.cookieLink, menu.cookieLink)]

\* ------------------------------------------------------------------------
\* Combined Policy Splitter: the marker split of scrapePageForMultiplePolicies
\* ------------------------------------------------------------------------

RECURSIVE indexFrom(_, _, _)
indexFrom(s, k, i) ==
    IF i + Len(k) > Len(s) THEN -1
    ELSE IF SubSeq(s, i + 1, i + Len(k)) = k THEN i
    ELSE indexFrom(s, k, i + 1)

\* String.prototype.indexOf: the position (from 0) of the first occurrence
\* of k in s, or -1.
indexOf(s, k) == indexFrom(s, k, 0)

\* A substring that ignores where it is to start.
substringFromStart(s, a, b) == SubSeq(s, 1, b)

\* String.prototype.substring(a, b), for 0 <= a <= b.
substring(s, a, b) == SubSeq(s, a + 1, b)

\* String.prototype.substring(a): to the end of the string.
substringFrom(s, a) == substring(s, a, Len(s))

privacyMarker == <<"P", "R", "I", "V", "A", "C", "Y", " ", "P", "O", "L", "I", "C", "Y", ":">>

cookieMarker == <<"C", "O", "O", "K", "I", "E", " ", "P", "O", "L", "I", "C", "Y", ":">>

DefaultPrivacyPolicy ==
    <<"N", "o", " ", "p", "r", "i", "v", "a", "c", "y", " ", "p", "o", "l", "i", "c", "y", " ", "f", "o", "u", "n", "d", " ", "o", "n", " ", "t", "h", "i", "s", " ", "p", "a", "g", "e", ".">>

DefaultCookiePolicy ==
    <<"N", "o", " ", "c", "o", "o", "k", "i", "e", " ", "p", "o", "l", "i", "c", "y", " ", "f", "o", "u", "n", "d", " ", "o", "n", " ", "t", "h", "i", "s", " ", "p", "a", "g", "e", ".">>

NoDedicatedCookiePolicy ==
    <<"N", "o", " ", "d", "e", "d", "i", "c", "a", "t", "e", "d", " ", "c", "o", "o", "k", "i", "e", " ", "p", "o", "l", "i", "c", "y", " ", "f", "o", "u", "n", "d">>

NoCookiePolicy ==
    <<"N", "o", " ", "c", "o", "o", "k", "i", "e", " ", "p", "o", "l", "i", "c", "y", " ", "f", "o", "u", "n", "d">>

NoCookieInformation ==
    <<"N", "o", " ", "c", "o", "o", "k", "i", "e", " ", "i", "n", "f", "o", "r", "m", "a", "t", "i", "o", "n", " ", "f", "o", "u", "n", "d">>

\* A split that expects the privacy marker first and the cookie marker
\* second, and gives up otherwise.
splitPoliciesInOrder(content) ==
    LET privacyStart == indexOf(content, privacyMarker)
        cookieStart == indexOf(content, cookieMarker)
    IN  IF privacyStart # -1 /\ cookieStart # -1
        THEN [privacyPolicy |->
                 Trim(substring(content, privacyStart + Len(privacyMarker), cookieStart)),
              cookiePolicy |->
                 Trim(substringFrom(content, cookieStart + Len(cookieMarker)))]
        ELSE [privacyPolicy |-> DefaultPrivacyPolicy,
              cookiePolicy |-> DefaultCookiePolicy]

\* The split of the service's answer at the two markers: the locals
\* privacyPolicy and cookiePolicy after the if / else-if chain.
splitPolicies(content) ==
    LET privacyStart == indexOf(content, privacyMarker)
        cookieStart == indexOf(content, cookieMarker)
    IN  CASE privacyStart # -1 /\ cookieStart # -1 /\ privacyStart < cookieStart ->
               [privacyPolicy |->
                   Trim(substring(content, privacyStart + Len(privacyMarker), cookieStart)),
                cookiePolicy |->
                   Trim(substringFrom(content, cookieStart + Len(cookieMarker)))]
          [] privacyStart # -1 /\ cookieStart = -1 ->
               [privacyPolicy |->
                   Trim(substringFrom(content, privacyStart + Len(privacyMarker))),
                cookiePolicy |-> DefaultCookiePolicy]
          [] cookieStart # -1 /\ privacyStart = -1 ->
               [privacyPolicy |-> DefaultPrivacyPolicy,
                cookiePolicy |->
                   Trim(substringFrom(content, cookieStart + Len(cookieMarker)))]
          [] privacyStart # -1 /\ cookieStart # -1 /\ cookieStart < privacyStart ->
               [privacyPolicy |->
                   Trim(substringFrom(content, privacyStart + Len(privacyMarker))),
                cookiePolicy |->
                   Trim(substring(content, cookieStart + Len(cookieMarker), privacyStart))]
          [] OTHER ->
               [privacyPolicy |-> DefaultPrivacyPolicy,
                cookiePolicy |-> DefaultCookiePolicy]

\* The condition of the second, narrower call: the cookie text of the split
\* holds one of the two "no cookie policy" sentences.
needsCookieSections(cookiePolicy) ==
    \/ Includes(cookiePolicy, NoDedicatedCookiePolicy)
    \/ Includes(cookiePolicy, NoCookiePolicy)

\* The cookie text after the second call answered with content.
withCookieSections(cookiePolicy, content) ==
    LET extractedCookieContent == Trim(content)
    IN  IF ~Includes(extractedCookieContent, NoCookieInformation)
        THEN extractedCookieContent
        ELSE cookiePolicy

\* ------------------------------------------------------------------------
\* Errors and document texts
\* ------------------------------------------------------------------------

NoError == [kind |-> "none", at |-> "none"]
Err(kind, at) == [kind |-> kind, at |-> at]

\* The document strings of a ScrapingResult.  A failure string embeds the
\* message of the error it reports.
NullText == [kind |-> "null", doc |-> "none", detail |-> NoError]
EmptyText == [kind |-> "empty", doc |-> "none", detail |-> NoError]
Text(doc) == [kind |-> "text", doc |-> doc, detail |-> NoError]
NotFoundText(doc) == [kind |-> "notFound", doc |-> doc, detail |-> NoError]
\* A failure string that says nothing of the error.
FailedBare(doc, e) == [kind |-> "failed", doc |-> doc, detail |-> NoError]

Failed(doc, e) == [kind |-> "failed", doc |-> doc, detail |-> e]

\* JavaScript truthiness of a "string | null".
truthy(t) == t.kind \notin {"null", "empty"}

\* ------------------------------------------------------------------------
\* LLM Extraction Client: callOpenAIWithRetry, in its three copies
\*   "openai": services/scrapingService.ts
\*   "orq":    unnamed/part_001 (openaiService)
\*   "route":  app/api/analyze/route.ts
\* ------------------------------------------------------------------------

Clients == {"openai", "orq", "route"}

\* What axios.post can answer: a completion, or a rejection that is
\*   "rateLimit":  status 429
\*   "retryAfter": status 429 carrying a retry-after header
\*   "tokens":     status 429 whose data.error.type is 'tokens'
\*   "tokensHint": the same, its message saying "Please try again in <n>s"
\*   "server":     any other failure (for the orq copy also an answer without
\*                 data, on which its try block throws)
Ok == Err("ok", "service")
ServiceErrors ==
    {Err("rateLimit", "service"), Err("retryAfter", "service"),
     Err("tokens", "service"), Err("tokensHint", "service"),
     Err("server", "service")}
Outcomes == {Ok} \cup ServiceErrors

RateLimitKinds == {"rateLimit", "retryAfter", "tokens", "tokensHint"}

\* Seconds-to-milliseconds value of the retry-after header of a "retryAfter" answer.
RetryAfterMs == 7000
\* Milliseconds of the wait a "tokensHint" message suggests.
SuggestedWaitMs == 12000
TokenWaitBuffer == 5000

\* Default value of the retries parameter of each copy.
OpenAIDefaultRetries == 4
OrqDefaultRetries == 2
RouteDefaultRetries == 3
\* scrapePageForMultiplePolicies: retries of its first and of its second call.
CombinedRetries == 4
CookieSectionRetries == 3

BackoffCap == 4000
TokenLimitWait == 30000

Max(a, b) == IF a > b THEN a ELSE b
Min(a, b) == IF a < b THEN a ELSE b

\* The exponential backoff without any cap.
backoffTimeUncapped(client, retryCount, lastError) == 2^retryCount * 1000

\* The backoffTime computed at the top of a retry iteration (retryCount > 0).
backoffTime(client, retryCount, lastError) ==
    CASE client = "openai" ->
            IF lastError.kind = "tokensHint"
            THEN Max(2^retryCount * 1000, SuggestedWaitMs + TokenWaitBuffer)
            ELSE IF lastError.kind = "tokens"
            THEN Max(2^retryCount * 1000, TokenLimitWait)
            ELSE 2^retryCount * 1000
      [] client = "orq" -> Min(2^retryCount * 1000, BackoffCap)
      [] client = "route" -> 2^retryCount * 1000

\* A catch block that retries whatever was thrown, in every copy.
isRetriedAlways(client, e) == TRUE

\* The test of the catch block that decides between retrying and rethrowing.
\* Every rejection of axios is an object, which is all the orq copy asks.
isRetried(client, e) ==
    CASE client = "openai" -> e.kind \in RateLimitKinds
      [] client = "orq" -> TRUE
      [] client = "route" -> e.kind \in RateLimitKinds

\* The wait of the catch block itself, taken before `continue`.
retryAfterWait(client, e) ==
    IF client = "openai" /\ e.kind = "retryAfter" THEN RetryAfterMs ELSE 0

\* 'gpt-3.5-turbo': the model argument of every call site, and the model the
\* openai copy falls back to.
FallbackModel == <<"g", "p", "t", "-", "3", ".", "5", "-", "t", "u", "r", "b", "o">>

\* 'gpt-4-turbo': the default of the model parameter of the openai copy.
DefaultModel == <<"g", "p", "t", "-", "4", "-", "t", "u", "r", "b", "o">>

\* A loop that falls back from its first retry on.
requestModelFirstRetry(client, model, retryCount) ==
    IF client = "openai" /\ retryCount >= 1 /\ Includes(model, <<"g", "p", "t", "-", "4">>)
    THEN FallbackModel
    ELSE model

\* The model named in the body of a request: the openai copy replaces a
\* 'gpt-4' model after three rate limits, the other copies pass `model` on.
requestModel(client, model, retryCount) ==
    IF client = "openai" /\ retryCount >= 3 /\ Includes(model, <<"g", "p", "t", "-", "4">>)
    THEN FallbackModel
    ELSE model

\* The locals of one invocation: `requests` counts the axios.post calls,
\* `backoffTime` is the wait the latest retry iteration started with,
\* `requestModel` the model of the latest request.
NoCall ==
    [client |-> "none", retries |-> 0, retryCount |-> 0, requests |-> 0,
     lastError |-> NoError, backoffTime |-> 0, retryAfterWait |-> 0,
     status |-> "idle", model |-> <<>>, requestModel |-> <<>>]

NewCall(client, retries) ==
    [NoCall EXCEPT !.client = client, !.retries = retries, !.status = "active",
                   !.model = FallbackModel]

\* The loop with one more iteration: "while (retryCount <= retries + 1)".
callOpenAIWithRetryOnceMore(c, outcome) ==
    LET sent == [c EXCEPT !.requests = @ + 1, !.retryAfterWait = 0,
                          !.requestModel = requestModel(c.client, c.model, c.retryCount)]
    IN
    IF outcome = Ok
    THEN [sent EXCEPT !.status = "returned"]
    ELSE IF ~isRetried(c.client, outcome)
    THEN [sent EXCEPT !.lastError = outcome, !.status = "thrown"]
    ELSE IF c.retryCount + 1 > c.retries + 1
    THEN [sent EXCEPT !.lastError = outcome, !.retryCount = @ + 1,
                      !.status = "thrown"]
    ELSE [sent EXCEPT !.lastError = outcome, !.retryCount = @ + 1,
                      !.retryAfterWait = retryAfterWait(c.client, outcome),
                      !.backoffTime = backoffTime(c.client, c.retryCount + 1, outcome)]

\* A loop that ends without throwing once the retries are used up.
callOpenAIWithRetryFallingThrough(c, outcome) ==
    LET sent == [c EXCEPT !.requests = @ + 1, !.retryAfterWait = 0,
                          !.requestModel = requestModel(c.client, c.model, c.retryCount)]
    IN
    IF outcome = Ok
    THEN [sent EXCEPT !.status = "returned"]
    ELSE IF ~isRetried(c.client, outcome)
    THEN [sent EXCEPT !.lastError = outcome, !.status = "thrown"]
    ELSE IF c.retryCount + 1 > c.retries
    THEN [sent EXCEPT !.lastError = outcome, !.retryCount = @ + 1,
                      !.status = "returned"]
    ELSE [sent EXCEPT !.lastError = outcome, !.retryCount = @ + 1,
                      !.retryAfterWait = retryAfterWait(c.client, outcome),
                      !.backoffTime = backoffTime(c.client, c.retryCount + 1, outcome)]

\* One request of "while (retryCount <= retries)": axios.post answers
\* `outcome`; when it is rejected and retried, the catch block and the wait
\* that opens the next iteration follow.
callOpenAIWithRetry(c, outcome) ==
    LET sent == [c EXCEPT !.requests = @ + 1, !.retryAfterWait = 0,
                          !.requestModel = requestModel(c.client, c.model, c.retryCount)]
    IN
    IF outcome = Ok
    THEN [sent EXCEPT !.status = "returned"]
    ELSE IF ~isRetried(c.client, outcome)
    THEN [sent EXCEPT !.lastError = outcome, !.status = "thrown"]
    ELSE IF c.retryCount + 1 > c.retries
    THEN [sent EXCEPT !.lastError = outcome, !.retryCount = @ + 1,
                      !.status = "thrown"]
    ELSE [sent EXCEPT !.lastError = outcome, !.retryCount = @ + 1,
                      !.retryAfterWait = retryAfterWait(c.client, outcome),
                      !.backoffTime = backoffTime(c.client, c.retryCount + 1, outcome)]

\* The locals of an invocation are gone once it has returned or thrown.
settle(c) == IF c.status = "active" THEN c ELSE NoCall

\* ------------------------------------------------------------------------
\* State of one scrapeWebsite invocation
\* ------------------------------------------------------------------------

VARIABLES
    variant,      \* "sequential": services/scrapingService.ts, "concurrent": unnamed/part_001
    pc,           \* position of scrapeWebsite
    browser,      \* "none", "open" or "closed"
    openPages,    \* how many page handles each step has open
    dom,          \* anchors of the loaded root page: [links, footer]
    passLog,      \* cascade passes invoked so far, in order
    mainLinks,    \* scrapeWebsite: mainLinks
    footerLinks,  \* scrapeWebsite: footerLinks
    menuLinks,    \* scrapeWebsite: menuLinks
    menuPages,    \* findMenuLinks: menuLinks.slice(0, 3), the candidate pages
    menuIdx,      \* findMenuLinks: candidates the for loop has finished with
    menuFound,    \* findMenuLinks: termsLink, privacyLink, cookieLink
    resolved,     \* scrapeWebsite: termsLink, privacyLink, cookieLink
    error,        \* the error scrapeWebsite threw
    tpc,          \* position of each document extraction
    call,         \* callOpenAIWithRetry: the retry loop of each call site
    combined,     \* scrapePageForMultiplePolicies: content, privacyPolicy, cookiePolicy
    result,       \* scrapeWebsite: termsOfService, privacyPolicy, cookiePolicy
    isPlaywrightVerified, \* unnamed/part_001: the module-level flag of that name
    invocations,  \* scrapeWebsite invocations this process has started
    setupChecks,  \* installation checks launchBrowser has made in this process
    handler,      \* position of the POST handler of app/api/analyze/route.ts
    request,      \* POST: the request body
    response,     \* POST: the NextResponse returned
    pageContent,  \* scrapePageWithOpenAI: the cleaned text read off the page
    truncatedContent, \* scrapePageWithOpenAI: the text put into the prompt
    apiKey,       \* OPENAI_API_KEY (part_001: ORQ_API_KEY) of the scraping module is set
    launchers,    \* launchBrowser: position of each of the calls in progress
    document, \* the elements of the document page, in document order
    policyContainer, \* page.evaluate, policyContainer (0 is null)
    completion, \* analyzeContentWithOpenAI, the data axios.post resolves to
    analysis \* analyzeContentWithOpenAI, what the call came to

cascadeLocals ==
    <<dom, passLog, mainLinks, footerLinks, menuLinks, menuPages, menuIdx, menuFound>>

cascadeVars ==
    <<dom, passLog, mainLinks, footerLinks, menuLinks, menuPages, menuIdx,
      menuFound, resolved>>

extractVars == <<tpc, call, combined, result>>

\* What belongs to the process, to the handler of the endpoint and to the
\* page text.
hostVars ==
    <<isPlaywrightVerified, invocations, setupChecks, handler, request, response,
      pageContent, truncatedContent, apiKey, launchers,
      document, policyContainer,
      completion, analysis>>

vars ==
    <<variant, pc, browser, openPages, dom, passLog, mainLinks, footerLinks,
      menuLinks, menuPages, menuIdx, menuFound, resolved, error,
      tpc, call, combined, result, isPlaywrightVerified, invocations,
      setupChecks, handler, request, response, pageContent, truncatedContent,
      apiKey, launchers,
      document, policyContainer,
      completion, analysis>>

Variants == {"sequential", "concurrent"}

\* The single-document extractions, and every call site of callOpenAIWithRetry:
\* "combined" is scrapePageForMultiplePolicies, "derive" is
\* extractCookiePolicyFromPrivacyPolicy, "analyze" is analyzeContentWithOpenAI.
DocTasks == {"terms", "privacy", "cookie"}
Tasks == DocTasks \cup {"combined", "derive", "analyze"}

NoResult ==
    [termsOfService |-> NullText, privacyPolicy |-> NullText, cookiePolicy |-> NullText]

NoSplit == [content |-> <<>>, privacyPolicy |-> <<>>, cookiePolicy |-> <<>>]

\* The copy of callOpenAIWithRetry a call site reaches: the one of its own
\* file.
clientAt(v, t) ==
    IF t = "analyze" THEN "route"
    ELSE IF v = "sequential" THEN "openai" ELSE "orq"

\* The retries argument of a call site; `pos` tells the first call of
\* scrapePageForMultiplePolicies ("call") from its second ("call2").
retriesAt(v, t, pos) ==
    CASE t = "combined" /\ pos = "call" -> CombinedRetries
      [] t = "combined" /\ pos = "call2" -> CookieSectionRetries
      [] clientAt(v, t) = "openai" -> OpenAIDefaultRetries
      [] clientAt(v, t) = "orq" -> OrqDefaultRetries
      [] OTHER -> RouteDefaultRetries

startCall(v, t, pos) == NewCall(clientAt(v, t), retriesAt(v, t, pos))

\* Longest anchor list of a root page, of a secondary page.
MaxLinks == 4
MaxSubLinks == 2

PageAnchors == 1..5

\* The anchors a secondary page of the menu pass can hold.
SubAnchors == 1..3

\* footer.querySelectorAll('a')
footerAnchors(page) ==
    SubSeq(page.links, Len(page.links) - page.footer + 1, Len(page.links))

NoPage == [links |-> <<>>, footer |-> 0]

\* The steps that open pages: scrapeWebsite ("root"), findMenuLinks ("menu"),
\* scrapePageWithOpenAI (the document) and scrapePageForMultiplePolicies.
Owners == {"root", "menu", "combined"} \cup DocTasks

NoPages == [o \in Owners |-> 0]
opened(pages, o) == [pages EXCEPT ![o] = @ + 1]
closed(pages, o) == [pages EXCEPT ![o] = @ - 1]

\* The request body and the response of a handler that was not called.
NoRequest == [body |-> "none", url |-> <<>>]
\* String(error): the name of the error, the text of its message, the
\* address the message quotes and the message of the error it wraps.
ErrorString(name, text, url, cause) ==
    [name |-> name, text |-> text, url |-> url, cause |-> cause]
NoResponse == [status |-> 0, error |-> "", details |-> ErrorString("", "", <<>>, "")]

\* No answer of the service, and no analysis yet.  A score is held in
\* tenths, so that a score with a fraction can be told from an integer.
NoCompletion == [shape |-> "none", content |-> <<>>]
NoAnalysis == [status |-> "pending", score |-> 0, issues |-> "none"]

\* Most scrapeWebsite invocations of one process.
MaxInvocations == 3

\* No call of launchBrowser is followed apart from the one of `pc`.
NoLaunchers == [i \in 1..MaxInvocations |-> "idle"]

\* A fresh process whose first scrapeWebsite invocation was not made through
\* the HTTP handler, and no page text read yet.
HostInit ==
    /\ isPlaywrightVerified = FALSE
    /\ invocations = 1
    /\ setupChecks = 0
    /\ handler = "none"
    /\ request = NoRequest
    /\ response = NoResponse
    /\ pageContent = <<>>
    /\ truncatedContent = <<>>
    /\ apiKey = TRUE
    /\ launchers = NoLaunchers
    /\ document = <<>>
    /\ policyContainer = 0
    /\ completion = NoCompletion
    /\ analysis = NoAnalysis

\* The same process once the browser of its first invocation is launched.
HostLaunched ==
    /\ isPlaywrightVerified = (variant = "concurrent")
    /\ invocations = 1
    /\ setupChecks = (IF variant = "concurrent" THEN 1 ELSE 0)
    /\ handler = "none"
    /\ request = NoRequest
    /\ response = NoResponse
    /\ pageContent = <<>>
    /\ truncatedContent = <<>>
    /\ apiKey = TRUE
    /\ launchers = NoLaunchers
    /\ document = <<>>
    /\ policyContainer = 0
    /\ completion = NoCompletion
    /\ analysis = NoAnalysis

Init ==
    /\ HostInit
    /\ variant \in Variants
    /\ pc = "launch"
    /\ browser = "none"
    /\ openPages = NoPages
    /\ dom = NoPage
    /\ passLog = <<>>
    /\ mainLinks = NoLinks
    /\ footerLinks = NoLinks
    /\ menuLinks = NoLinks
    /\ menuPages = <<>>
    /\ menuIdx = 0
    /\ menuFound = NoLinks
    /\ resolved = NoLinks
    /\ error = NoError
    /\ tpc = [t \in Tasks |-> "off"]
    /\ call = [t \in Tasks |-> NoCall]
    /\ combined = NoSplit
    /\ result = NoResult

\* A catch block that rethrows and no finally block after it.
ThrowWithoutFinally(e) ==
    /\ pc' = "raised"
    /\ error' = e
    /\ UNCHANGED <<browser, openPages>>

\* scrapeWebsite's catch and finally: rethrow, then browser.close(), which
\* closes every page of the browser.
Throw(e) ==
    /\ pc' = "raised"
    /\ error' = e
    /\ browser' = "closed"
    /\ openPages' = NoPages

\* An installation check made by every invocation.
needsSetupCheckAlways(v, verified) == v = "concurrent"

\* launchBrowser: "if (!isPlaywrightVerified)"; the sequential variant has
\* neither the flag nor the check.
needsSetupCheck(v, verified) == v = "concurrent" /\ ~verified

\* chromium.launch / launchBrowser, before the try block.  launchBrowser
\* first makes the installation check, unless the flag says it was made;
\* the check sets the flag once isPlaywrightInstalled() or the installation
\* has returned, and an installation that fails leaves it unset.
LaunchBrowser ==
    /\ pc = "launch"
    /\ setupChecks' =
          IF needsSetupCheck(variant, isPlaywrightVerified)
          THEN setupChecks + 1 ELSE setupChecks
    /\ \/ /\ browser' = "open"
          /\ pc' = "newPage"
          /\ isPlaywrightVerified' = (isPlaywrightVerified \/ variant = "concurrent")
          /\ UNCHANGED error
       \/ /\ pc' = "raised"
          /\ error' = Err("launch", "browser")
          /\ isPlaywrightVerified' = (isPlaywrightVerified \/ variant = "concurrent")
          /\ UNCHANGED browser
       \/ /\ needsSetupCheck(variant, isPlaywrightVerified)
          /\ pc' = "raised"
          /\ error' = Err("launch", "browser")
          /\ UNCHANGED <<browser, isPlaywrightVerified>>
    /\ UNCHANGED extractVars
    /\ UNCHANGED <<variant, openPages, cascadeVars, invocations, handler, request,
                   response, pageContent, truncatedContent, apiKey, launchers,
      document, policyContainer,
      completion, analysis>>

\* browser.newContext(); context.newPage()
NewRootPage ==
    /\ pc = "newPage"
    /\ \/ /\ openPages' = opened(openPages, "root")
          /\ pc' = "goto"
          /\ UNCHANGED <<browser, error>>
       \/ Throw(Err("newPage", "root"))
    /\ UNCHANGED extractVars
    /\ UNCHANGED <<variant, cascadeVars>>
    /\ UNCHANGED hostVars

\* page.goto(url, ...)
GotoRoot ==
    /\ pc = "goto"
    /\ \/ /\ \E n \in 0..MaxLinks : \E l \in [1..n -> PageAnchors] : \E f \in 0..n :
                dom' = [links |-> l, footer |-> f]
          /\ pc' = "main"
          /\ UNCHANGED <<browser, openPages, error>>
       \/ /\ Throw(Err("navigation", "root"))
          /\ UNCHANGED dom
    /\ UNCHANGED extractVars
    /\ UNCHANGED <<variant, passLog, mainLinks, footerLinks, menuLinks, menuPages,
                   menuIdx, menuFound, resolved>>
    /\ UNCHANGED hostVars

\* mainLinks = await findComplianceLinks(page), then the first gate.
MainPage ==
    /\ pc = "main"
    /\ passLog' = Append(passLog, "MainPage")
    /\ \/ /\ mainLinks' = findComplianceLinks(dom.links)
          /\ pc' = IF needsFooterPass(mainLinks') THEN "footer" ELSE "gate"
          /\ UNCHANGED <<browser, openPages, error>>
       \/ /\ Throw(Err("evaluate", "root"))
          /\ UNCHANGED mainLinks
    /\ UNCHANGED extractVars
    /\ UNCHANGED <<variant, dom, footerLinks, menuLinks, menuPages, menuIdx,
                   menuFound, resolved>>
    /\ UNCHANGED hostVars

\* footerLinks = await findFooterLinks(page)
FooterPass ==
    /\ pc = "footer"
    /\ passLog' = Append(passLog, "FooterPass")
    /\ \/ /\ footerLinks' = findFooterLinks(footerAnchors(dom))
          /\ pc' = "gate"
          /\ UNCHANGED <<browser, openPages, error>>
       \/ /\ Throw(Err("evaluate", "root"))
          /\ UNCHANGED footerLinks
    /\ UNCHANGED extractVars
    /\ UNCHANGED <<variant, dom, mainLinks, menuLinks, menuPages, menuIdx,
                   menuFound, resolved>>
    /\ UNCHANGED hostVars

\* The second gate of scrapeWebsite.
MenuGate ==
    /\ pc = "gate"
    /\ IF needsMenuPass(mainLinks, footerLinks)
       THEN pc' = "menu" /\ UNCHANGED dom
       ELSE pc' = "consolidate" /\ dom' = NoPage
    /\ UNCHANGED extractVars
    /\ UNCHANGED <<variant, browser, openPages, error, passLog, mainLinks,
                   footerLinks, menuLinks, menuPages, menuIdx, menuFound, resolved>>
    /\ UNCHANGED hostVars

\* findMenuLinks: the candidate pages, page.evaluate on the root page.
MenuCandidates ==
    /\ pc = "menu"
    /\ passLog' = Append(passLog, "MenuPass")
    /\ \/ /\ menuPages' = slice(filter(dom.links, MenuPageAnchors), MenuPageLimit)
          /\ pc' = "menuLoop"
          /\ dom' = NoPage
          /\ UNCHANGED <<browser, openPages, error>>
       \/ /\ Throw(Err("evaluate", "root"))
          /\ UNCHANGED <<menuPages, dom>>
    /\ UNCHANGED extractVars
    /\ UNCHANGED <<variant, mainLinks, footerLinks, menuLinks, menuIdx,
                   menuFound, resolved>>
    /\ UNCHANGED hostVars

\* An iteration whose catch clause drops what the loop has found.
MenuVisitForgetting ==
    /\ pc = "menuLoop"
    /\ menuIdx < Len(menuPages)
    /\ \/ \* page.context().newPage() throws
          /\ menuIdx' = menuIdx + 1
          /\ UNCHANGED <<openPages, menuFound, menuLinks, pc>>
       \/ \* subPage.goto or subPage.evaluate throws: the catch logs, and
          \* subPage is left open
          /\ menuIdx' = menuIdx + 1
          /\ openPages' = opened(openPages, "menu")
          /\ menuFound' = NoLinks
          /\ UNCHANGED <<menuLinks, pc>>
       \/ \* the sub-page is classified and closed
          \E n \in 0..MaxSubLinks : \E links \in [1..n -> SubAnchors] :
             /\ menuFound' = classifySubPage(menuFound, links)
             /\ menuIdx' = menuIdx + 1
             /\ UNCHANGED openPages
             /\ IF foundAll(menuFound')
                THEN pc' = "consolidate" /\ menuLinks' = menuFound'
                ELSE UNCHANGED <<pc, menuLinks>>
    /\ UNCHANGED extractVars
    /\ UNCHANGED <<variant, browser, error, dom, passLog, mainLinks, footerLinks,
                   menuPages, resolved>>
    /\ UNCHANGED hostVars

\* One iteration of the for loop of findMenuLinks, the catch included.
MenuVisit ==
    /\ pc = "menuLoop"
    /\ menuIdx < Len(menuPages)
    /\ \/ \* page.context().newPage() throws
          /\ menuIdx' = menuIdx + 1
          /\ UNCHANGED <<openPages, menuFound, menuLinks, pc>>
       \/ \* subPage.goto or subPage.evaluate throws: the catch logs, and
          \* subPage is left open
          /\ menuIdx' = menuIdx + 1
          /\ openPages' = opened(openPages, "menu")
          /\ UNCHANGED <<menuFound, menuLinks, pc>>
       \/ \* the sub-page is classified and closed
          \E n \in 0..MaxSubLinks : \E links \in [1..n -> SubAnchors] :
             /\ menuFound' = classifySubPage(menuFound, links)
             /\ menuIdx' = menuIdx + 1
             /\ UNCHANGED openPages
             /\ IF foundAll(menuFound')
                THEN pc' = "consolidate" /\ menuLinks' = menuFound'
                ELSE UNCHANGED <<pc, menuLinks>>
    /\ UNCHANGED extractVars
    /\ UNCHANGED <<variant, browser, error, dom, passLog, mainLinks, footerLinks,
                   menuPages, resolved>>
    /\ UNCHANGED hostVars

\* The for loop of findMenuLinks is over: return { termsLink, ... }.
MenuReturn ==
    /\ pc = "menuLoop"
    /\ menuIdx = Len(menuPages)
    /\ menuLinks' = menuFound
    /\ pc' = "consolidate"
    /\ UNCHANGED extractVars
    /\ UNCHANGED <<variant, browser, openPages, error, dom, passLog, mainLinks,
                   footerLinks, menuPages, menuIdx, menuFound, resolved>>
    /\ UNCHANGED hostVars

\* termsLink = mainLinks.termsLink || footerLinks.termsLink || menuLinks.termsLink ...
Consolidate ==
    /\ pc = "consolidate"
    /\ resolved' = consolidate(mainLinks, footerLinks, menuLinks)
    /\ pc' = "extract"
    /\ UNCHANGED extractVars
    /\ UNCHANGED <<variant, browser, openPages, error, dom, passLog, mainLinks,
                   footerLinks, menuLinks, menuPages, menuIdx, menuFound>>
    /\ UNCHANGED hostVars

Cascade ==
    \/ LaunchBrowser
    \/ NewRootPage
    \/ GotoRoot
    \/ MainPage
    \/ FooterPass
    \/ MenuGate
    \/ MenuCandidates
    \/ MenuVisit
    \/ MenuReturn
    \/ Consolidate

SpecCascade == Init /\ [][Cascade]_vars

\* ------------------------------------------------------------------------
\* Document extraction
\* ------------------------------------------------------------------------

\* A test that never takes two links for one page.
isCombinedNever(r) == FALSE

\* privacyLink && cookieLink && privacyLink.href === cookieLink.href
isCombined(r) ==
    /\ r.privacyLink # null
    /\ r.cookieLink # null
    /\ href[r.privacyLink] = href[r.cookieLink]

\* mainLinks, footerLinks, menuLinks and the locals of findMenuLinks are not
\* read again once the links are consolidated.
ForgetCascade ==
    /\ dom' = NoPage
    /\ passLog' = <<>>
    /\ mainLinks' = NoLinks
    /\ footerLinks' = NoLinks
    /\ menuLinks' = NoLinks
    /\ menuPages' = <<>>
    /\ menuIdx' = 0
    /\ menuFound' = NoLinks

\* A control flow that returns as soon as the privacy text is there.
afterPrivacyReturn(t) ==
    CASE t = "terms" -> "afterTerms"
      [] OTHER -> "return"

\* The statement of scrapeWebsite that follows the extraction of `t` in the
\* sequential variant; the concurrent variant awaits them all together.
after(t) ==
    CASE t = "terms" -> "afterTerms"
      [] t = "privacy" -> "afterPrivacy"
      [] OTHER -> "return"

Resume(t) ==
    IF pc = "await" THEN pc' = after(t) ELSE UNCHANGED pc

\* Every task hands its text to the same variable.
slotOfCookie(t) == "cookiePolicy"

\* The variable of scrapeWebsite that receives what task `t` returns.
slotOf(t) ==
    CASE t = "terms" -> "termsOfService"
      [] t = "privacy" -> "privacyPolicy"
      [] OTHER -> "cookiePolicy"

\* An assignment that hands the text of `t` to every document.
FinishShared(t, text) ==
    /\ tpc' = [tpc EXCEPT ![t] = "done"]
    /\ result' = [s \in DOMAIN result |-> text]
    /\ Resume(t)

\* A single-document extraction or the cookie derivation returns `text`.
Finish(t, text) ==
    /\ tpc' = [tpc EXCEPT ![t] = "done"]
    /\ result' = [result EXCEPT ![slotOf(t)] = text]
    /\ Resume(t)

\* scrapePageForMultiplePolicies returns { privacyPolicy, cookiePolicy }.
FinishCombined(privacy, cookie) ==
    /\ tpc' = [tpc EXCEPT !["combined"] = "done"]
    /\ result' = [result EXCEPT !.privacyPolicy = privacy, !.cookiePolicy = cookie]
    /\ Resume("combined")

\* Sequential variant: if (termsLink) termsOfService = await scrapePageWithOpenAI(...)
StartTerms ==
    /\ variant = "sequential"
    /\ pc = "extract"
    /\ ForgetCascade
    /\ IF resolved.termsLink # null
       THEN tpc' = [tpc EXCEPT !["terms"] = "newPage"] /\ pc' = "await"
       ELSE pc' = "afterTerms" /\ UNCHANGED tpc
    /\ UNCHANGED <<variant, browser, openPages, resolved, error, call, combined, result>>
    /\ UNCHANGED hostVars

\* Sequential variant: the combined page, or the privacy page.
StartPrivacy ==
    /\ pc = "afterTerms"
    /\ IF isCombined(resolved)
       THEN tpc' = [tpc EXCEPT !["combined"] = "newPage"] /\ pc' = "await"
       ELSE IF resolved.privacyLink # null
       THEN tpc' = [tpc EXCEPT !["privacy"] = "newPage"] /\ pc' = "await"
       ELSE pc' = "afterPrivacy" /\ UNCHANGED tpc
    /\ UNCHANGED <<variant, browser, openPages, cascadeVars, error, call, combined, result>>
    /\ UNCHANGED hostVars

\* Sequential variant: the cookie page, else the cookie sections of the
\* privacy text, else nothing.
StartCookie ==
    /\ pc = "afterPrivacy"
    /\ IF resolved.cookieLink # null
       THEN /\ tpc' = [tpc EXCEPT !["cookie"] = "newPage"]
            /\ pc' = "await"
            /\ UNCHANGED call
       ELSE IF resolved.privacyLink # null /\ truthy(result.privacyPolicy)
       THEN /\ tpc' = [tpc EXCEPT !["derive"] = "call"]
            /\ call' = [call EXCEPT !["derive"] = startCall(variant, "derive", "call")]
            /\ pc' = "await"
       ELSE pc' = "return" /\ UNCHANGED <<tpc, call>>
    /\ UNCHANGED <<variant, browser, openPages, cascadeVars, error, combined, result>>
    /\ UNCHANGED hostVars

\* A concurrent variant that leaves the terms page out.
StartAllButTerms ==
    /\ variant = "concurrent"
    /\ pc = "extract"
    /\ ForgetCascade
    /\ tpc' = [t \in Tasks |->
                 CASE t = "terms" /\ resolved.termsLink # null -> "off"
                   [] t = "combined" /\ isCombined(resolved) -> "newPage"
                   [] t = "privacy" /\ ~isCombined(resolved)
                        /\ resolved.privacyLink # null -> "newPage"
                   [] t = "cookie" /\ ~isCombined(resolved)
                        /\ resolved.cookieLink # null -> "newPage"
                   [] OTHER -> tpc[t]]
    /\ pc' = "awaitAll"
    /\ UNCHANGED <<variant, browser, openPages, resolved, error, call, combined, result>>
    /\ UNCHANGED hostVars

\* Concurrent variant: every extraction is started, then Promise.all.
StartAll ==
    /\ variant = "concurrent"
    /\ pc = "extract"
    /\ ForgetCascade
    /\ tpc' = [t \in Tasks |->
                 CASE t = "terms" /\ resolved.termsLink # null -> "newPage"
                   [] t = "combined" /\ isCombined(resolved) -> "newPage"
                   [] t = "privacy" /\ ~isCombined(resolved)
                        /\ resolved.privacyLink # null -> "newPage"
                   [] t = "cookie" /\ ~isCombined(resolved)
                        /\ resolved.cookieLink # null -> "newPage"
                   [] OTHER -> tpc[t]]
    /\ pc' = "awaitAll"
    /\ UNCHANGED <<variant, browser, openPages, resolved, error, call, combined, result>>
    /\ UNCHANGED hostVars

\* Concurrent variant: Promise.all resolves, then the cookie derivation gate.
JoinAll ==
    /\ pc = "awaitAll"
    /\ \A t \in Tasks : tpc[t] \in {"off", "done"}
    /\ IF ~truthy(result.cookiePolicy) /\ truthy(result.privacyPolicy)
       THEN /\ tpc' = [tpc EXCEPT !["derive"] = "call"]
            /\ call' = [call EXCEPT !["derive"] = startCall(variant, "derive", "call")]
            /\ pc' = "await"
       ELSE pc' = "return" /\ UNCHANGED <<tpc, call>>
    /\ UNCHANGED <<variant, browser, openPages, cascadeVars, error, combined, result>>
    /\ UNCHANGED hostVars

\* return { termsOfService, privacyPolicy, cookiePolicy }, then the finally block.
Return ==
    /\ pc = "return"
    /\ pc' = "returned"
    /\ browser' = "closed"
    /\ openPages' = NoPages
    /\ UNCHANGED <<variant, cascadeVars, error, extractVars>>
    /\ UNCHANGED hostVars

\* An extraction that never looks at the key.
missesKeyNever(t, key) == FALSE

\* "if (!OPENAI_API_KEY)" (part_001: "if (!isOpenAIConfigured())"), the first
\* statement of scrapePageWithOpenAI and the second of
\* extractCookiePolicyFromPrivacyPolicy; scrapePageForMultiplePolicies has no
\* such test.
missesKey(t, key) == t \in DocTasks \cup {"derive"} /\ ~key

\* "Failed to scrape ... content: OpenAI API key not found. ..." and
\* "Failed to extract cookie policy: OpenAI API key not found."
KeyNotFound(t) == Failed(t, Err("apiKey", t))

\* scrapePageWithOpenAI: context.newPage(), inside the try block.
DocNewPage(t) ==
    /\ t \in DocTasks
    /\ tpc[t] = "newPage"
    /\ \/ /\ ~missesKey(t, apiKey)
          /\ browser = "open"
          /\ openPages' = opened(openPages, t)
          /\ tpc' = [tpc EXCEPT ![t] = "goto"]
          /\ UNCHANGED <<pc, result>>
       \/ /\ ~missesKey(t, apiKey)
          /\ Finish(t, Failed(t, Err("newPage", t)))
          /\ UNCHANGED openPages
       \/ /\ missesKey(t, apiKey)
          /\ Finish(t, KeyNotFound(t))
          /\ UNCHANGED openPages
    /\ UNCHANGED <<variant, browser, cascadeVars, error, call, combined>>
    /\ UNCHANGED hostVars

\* scrapePageWithOpenAI: page.goto(url, navigationOptions)
DocGoto(t) ==
    /\ t \in DocTasks
    /\ tpc[t] = "goto"
    /\ \/ /\ browser = "open"
          /\ tpc' = [tpc EXCEPT ![t] = "evaluate"]
          /\ UNCHANGED <<pc, result>>
       \/ Finish(t, Failed(t, Err("navigation", t)))
    /\ UNCHANGED <<variant, browser, openPages, cascadeVars, error, call, combined>>
    /\ UNCHANGED hostVars

\* scrapePageWithOpenAI: page.evaluate(...), then page.close().
DocEvaluate(t) ==
    /\ t \in DocTasks
    /\ tpc[t] = "evaluate"
    /\ \/ /\ browser = "open"
          /\ openPages' = closed(openPages, t)
          /\ tpc' = [tpc EXCEPT ![t] = "call"]
          /\ call' = [call EXCEPT ![t] = startCall(variant, t, "call")]
          /\ UNCHANGED <<pc, result>>
       \/ /\ Finish(t, Failed(t, Err("evaluate", t)))
          /\ UNCHANGED <<openPages, call>>
    /\ UNCHANGED <<variant, browser, cascadeVars, error, combined>>
    /\ UNCHANGED hostVars

\* scrapePageWithOpenAI and extractCookiePolicyFromPrivacyPolicy: one
\* iteration of the retry loop, then the return or the catch block.  The
\* cookie derivation tests the key before its first request.
DocRequest(t) ==
    /\ t \in DocTasks \cup {"derive"}
    /\ tpc[t] = "call"
    /\ IF missesKey(t, apiKey)
       THEN /\ call' = [call EXCEPT ![t] = NoCall]
            /\ Finish(t, KeyNotFound(t))
       ELSE \E outcome \in Outcomes :
              LET c == callOpenAIWithRetry(call[t], outcome) IN
              /\ call' = [call EXCEPT ![t] = settle(c)]
              /\ CASE c.status = "returned" ->
                        \E text \in {Text(t), EmptyText} : Finish(t, text)
                   [] c.status = "thrown" -> Finish(t, Failed(t, c.lastError))
                   [] OTHER -> UNCHANGED <<tpc, result, pc>>
    /\ UNCHANGED <<variant, browser, openPages, cascadeVars, error, combined>>
    /\ UNCHANGED hostVars

\* scrapePageForMultiplePolicies: context.newPage(), before the try block.
CombinedNewPage ==
    /\ tpc["combined"] = "newPage"
    /\ \/ /\ browser = "open"
          /\ openPages' = opened(openPages, "combined")
          /\ tpc' = [tpc EXCEPT !["combined"] = "goto"]
          /\ UNCHANGED <<pc, browser, error>>
       \/ /\ pc \in {"await", "awaitAll"}
          /\ tpc' = [tpc EXCEPT !["combined"] = "rejected"]
          /\ Throw(Err("newPage", "combined"))
    /\ UNCHANGED <<variant, cascadeVars, call, combined, result>>
    /\ UNCHANGED hostVars

\* The catch block of scrapePageForMultiplePolicies.
CombinedFailed(e) ==
    FinishCombined(Failed("privacy", e), Failed("cookie", e))

CombinedGoto ==
    /\ tpc["combined"] = "goto"
    /\ \/ /\ browser = "open"
          /\ tpc' = [tpc EXCEPT !["combined"] = "evaluate"]
          /\ UNCHANGED <<pc, result>>
       \/ CombinedFailed(Err("navigation", "combined"))
    /\ UNCHANGED <<variant, browser, openPages, cascadeVars, error, call, combined>>
    /\ UNCHANGED hostVars

CombinedEvaluate ==
    /\ tpc["combined"] = "evaluate"
    /\ \/ /\ browser = "open"
          /\ openPages' = closed(openPages, "combined")
          /\ tpc' = [tpc EXCEPT !["combined"] = "call"]
          /\ call' = [call EXCEPT !["combined"] = startCall(variant, "combined", "call")]
          /\ UNCHANGED <<pc, result>>
       \/ /\ CombinedFailed(Err("evaluate", "combined"))
          /\ UNCHANGED <<openPages, call>>
    /\ UNCHANGED <<variant, browser, cascadeVars, error, combined>>
    /\ UNCHANGED hostVars

\* What a string of scrapePageForMultiplePolicies is as a document text of
\* the result: the empty string, a "no cookie policy" sentence, or text.
textOf(doc, s) ==
    IF s = <<>> THEN EmptyText
    ELSE IF doc = "cookie" /\ needsCookieSections(s) THEN NotFoundText(doc)
    ELSE Text(doc)

\* Answers of the service to the first call: both sections, the privacy
\* section alone, and an empty cookie section.
CombinedReplies ==
    {<<"P", "R", "I", "V", "A", "C", "Y", " ", "P", "O", "L", "I", "C", "Y", ":", "\n", "a", "\n", "C", "O", "O", "K", "I", "E", " ", "P", "O", "L", "I", "C", "Y", ":", "\n", "b">>,
     <<"P", "R", "I", "V", "A", "C", "Y", " ", "P", "O", "L", "I", "C", "Y", ":", "\n", "a">>,
     <<"P", "R", "I", "V", "A", "C", "Y", " ", "P", "O", "L", "I", "C", "Y", ":", "\n", "a", "\n", "C", "O", "O", "K", "I", "E", " ", "P", "O", "L", "I", "C", "Y", ":">>}

\* Answers of the service to the second call.
CookieSectionReplies ==
    {<<" ", "c", " ">>,
     <<"N", "o", " ", "c", "o", "o", "k", "i", "e", " ", "i", "n", "f", "o", "r", "m", "a", "t", "i", "o", "n", " ", "f", "o", "u", "n", "d">>}

\* The first call of scrapePageForMultiplePolicies and the marker split.
CombinedRequest ==
    /\ tpc["combined"] = "call"
    /\ \E outcome \in Outcomes :
         LET c == callOpenAIWithRetry(call["combined"], outcome) IN
         CASE c.status = "returned" ->
                 \E content \in CombinedReplies :
                    LET split == splitPolicies(content) IN
                    IF needsCookieSections(split.cookiePolicy)
                    THEN /\ combined' = [content |-> content,
                                         privacyPolicy |-> split.privacyPolicy,
                                         cookiePolicy |-> split.cookiePolicy]
                         /\ tpc' = [tpc EXCEPT !["combined"] = "call2"]
                         /\ call' = [call EXCEPT !["combined"] =
                                        startCall(variant, "combined", "call2")]
                         /\ UNCHANGED <<pc, result>>
                    ELSE /\ FinishCombined(textOf("privacy", split.privacyPolicy),
                                           textOf("cookie", split.cookiePolicy))
                         /\ call' = [call EXCEPT !["combined"] = settle(c)]
                         /\ UNCHANGED combined
           [] c.status = "thrown" ->
                 /\ CombinedFailed(c.lastError)
                 /\ call' = [call EXCEPT !["combined"] = settle(c)]
                 /\ UNCHANGED combined
           [] OTHER ->
                 /\ call' = [call EXCEPT !["combined"] = settle(c)]
                 /\ UNCHANGED <<tpc, result, pc, combined>>
    /\ UNCHANGED <<variant, browser, openPages, cascadeVars, error>>
    /\ UNCHANGED hostVars

\* The second, narrower call of scrapePageForMultiplePolicies.  It is made
\* inside the try block of the first: when it throws, the catch clause
\* returns a failure string for both documents.
CombinedCookieRequest ==
    /\ tpc["combined"] = "call2"
    /\ \E outcome \in Outcomes :
         LET c == callOpenAIWithRetry(call["combined"], outcome) IN
         /\ call' = [call EXCEPT !["combined"] = settle(c)]
         /\ CASE c.status = "returned" ->
                   \E content \in CookieSectionReplies :
                      FinishCombined(
                         textOf("privacy", combined.privacyPolicy),
                         textOf("cookie",
                                withCookieSections(combined.cookiePolicy, content)))
              [] c.status = "thrown" -> CombinedFailed(c.lastError)
              [] OTHER -> UNCHANGED <<tpc, result, pc>>
    /\ UNCHANGED <<variant, browser, openPages, cascadeVars, error, combined>>
    /\ UNCHANGED hostVars

Extraction ==
    \/ StartTerms
    \/ StartPrivacy
    \/ StartCookie
    \/ StartAll
    \/ JoinAll
    \/ Return
    \/ \E t \in DocTasks : DocNewPage(t)
    \/ \E t \in DocTasks : DocGoto(t)
    \/ \E t \in DocTasks : DocEvaluate(t)
    \/ \E t \in DocTasks \cup {"derive"} : DocRequest(t)
    \/ CombinedNewPage
    \/ CombinedGoto
    \/ CombinedEvaluate
    \/ CombinedRequest
    \/ CombinedCookieRequest

Next == Cascade \/ Extraction

Spec == Init /\ [][Next]_vars

\* ------------------------------------------------------------------------
\* One site: the root page holds a single link, "Privacy Policy" to
\* x.io/privacy, in its footer, and no other page of the site is a candidate
\* of the menu pass.
\* ------------------------------------------------------------------------

\* The last anchor of the tables: "Privacy Policy", x.io/privacy.
PrivacyPolicyAnchor == Len(textContent)

FooterPrivacyPage == [links |-> <<PrivacyPolicyAnchor>>, footer |-> 1]

\* await page.goto(url, ...) on that site.
GotoFooterPrivacyPage ==
    /\ pc = "goto"
    /\ \/ /\ dom' = FooterPrivacyPage
          /\ pc' = "main"
          /\ UNCHANGED <<browser, openPages, error>>
       \/ /\ Throw(Err("navigation", "root"))
          /\ UNCHANGED dom
    /\ UNCHANGED extractVars
    /\ UNCHANGED <<variant, passLog, mainLinks, footerLinks, menuLinks, menuPages,
                   menuIdx, menuFound, resolved>>
    /\ UNCHANGED hostVars

NextFooterPrivacy ==
    \/ LaunchBrowser
    \/ NewRootPage
    \/ GotoFooterPrivacyPage
    \/ MainPage
    \/ FooterPass
    \/ MenuGate
    \/ MenuCandidates
    \/ MenuReturn
    \/ Consolidate
    \/ StartTerms
    \/ StartPrivacy
    \/ StartCookie
    \/ StartAll
    \/ JoinAll
    \/ Return
    \/ \E t \in DocTasks : DocNewPage(t)
    \/ \E t \in DocTasks : DocGoto(t)
    \/ \E t \in DocTasks : DocEvaluate(t)
    \/ \E t \in DocTasks \cup {"derive"} : DocRequest(t)

SpecFooterPrivacy == Init /\ [][NextFooterPrivacy]_vars

\* The same site, scraped by a process whose key may be missing.
InitKey ==
    /\ apiKey \in BOOLEAN
    /\ launchers = NoLaunchers
    /\ document = <<>>
    /\ policyContainer = 0
    /\ completion = NoCompletion
    /\ analysis = NoAnalysis
    /\ isPlaywrightVerified = FALSE
    /\ invocations = 1
    /\ setupChecks = 0
    /\ handler = "none"
    /\ request = NoRequest
    /\ response = NoResponse
    /\ pageContent = <<>>
    /\ truncatedContent = <<>>
    /\ variant \in Variants
    /\ pc = "launch"
    /\ browser = "none"
    /\ openPages = NoPages
    /\ dom = NoPage
    /\ passLog = <<>>
    /\ mainLinks = NoLinks
    /\ footerLinks = NoLinks
    /\ menuLinks = NoLinks
    /\ menuPages = <<>>
    /\ menuIdx = 0
    /\ menuFound = NoLinks
    /\ resolved = NoLinks
    /\ error = NoError
    /\ tpc = [t \in Tasks |-> "off"]
    /\ call = [t \in Tasks |-> NoCall]
    /\ combined = NoSplit
    /\ result = NoResult

SpecKey == InitKey /\ [][NextFooterPrivacy]_vars

\* ------------------------------------------------------------------------
\* The handler of the endpoint: POST of app/api/analyze/route.ts, which calls
\* the scrapeWebsite it imports from services/scrapingService.
\* ------------------------------------------------------------------------

\* new URL(url) does not throw: the string, trimmed, starts with a scheme
\* (a letter, then letters, digits, "+", "-", "."), then ":", and after the
\* scheme of a web address a host without spaces follows, the slashes
\* before it skipped, up to the next slash.
parses(url) ==
    LET letters ==
            {"a", "b", "c", "d", "e", "f", "g", "h", "i", "j", "k", "l", "m", "n",
             "o", "p", "q", "r", "s", "t", "u", "v", "w", "x", "y", "z"}
        digits == {"0", "1", "2", "3", "4", "5", "6", "7", "8", "9"}
        input == Trim(url)
        colon == indexOf(input, <<":">>)
        scheme == ToLowerCase(substring(input, 0, colon))
        rest == substringFrom(input, colon + 1)
        slashes == CHOOSE n \in 0..Len(rest) :
                      /\ \A j \in 1..n : rest[j] = "/"
                      /\ n < Len(rest) => rest[n + 1] # "/"
        authority == substringFrom(rest, slashes)
        end == indexOf(authority, <<"/">>)
        host == IF end = -1 THEN authority ELSE substring(authority, 0, end)
    IN /\ colon > 0
       /\ scheme[1] \in letters
       /\ \A i \in 1..Len(scheme) : scheme[i] \in letters \cup digits \cup {"+", "-", "."}
       /\ scheme \in {<<"h",
                      "t", "t", "p">>, <<"h", "t", "t", "p", "s">>} =>
             host # <<>> /\ \A i \in 1..Len(host) : host[i] \notin WhiteSpace

\* The bodies a request can carry: no JSON at all, the JSON null, an object
\* without url, and an object whose url is one of these strings.
Requests ==
    {[body |-> b, url |-> <<>>] : b \in {"unreadable", "null", "noUrl"}}
        \cup {[body |-> "url", url |-> u] : u \in
        { <<>>, <<"x", ".", "i", "o">>, <<"/", "p", "r", "i", "v", "a", "c", "y">>, <<"h", "t", "t", "p", ":", "/", "/">>, <<"h", "t", "t", "p", "s", ":", "/", "/", "x", ".", "i", "o">>, <<"H", "T", "T", "P", ":", "/", "/", "x", ".", "i", "o", "/", "a">>, <<" ", "h", "t", "t", "p", "s", ":", "/", "/", "x", " ", "i", "o", "/">>, <<"m", "a", "i", "l", "t", "o", ":", "a">> }}

\* String(error) of what request.json() or the destructuring throws.
BodyError(body) ==
    IF body = "unreadable"
    THEN ErrorString("SyntaxError", "Unexpected token", <<>>, "")
    ELSE ErrorString("TypeError", "Cannot destructure property 'url'", <<>>, "")

\* An error string that never names the address.
ScrapeErrorBare(e, url) ==
    ErrorString("Error", "Failed to scrape website", <<>>, e.kind)

\* String(error) of the Error scrapeWebsite throws: a launch failure is
\* thrown before the try block and names no address, every later failure
\* is rethrown as "Failed to scrape website ${url}: ${message}".
ScrapeError(e, url) ==
    IF e.kind = "launch"
    THEN ErrorString("Error", "Failed to launch browser for scraping", <<>>, e.kind)
    ELSE ErrorString("Error", "Failed to scrape website", url, e.kind)

Respond(status, message, details) ==
    /\ response' = [status |-> status, error |-> message, details |-> details]
    /\ handler' = "responded"

InitEndpoint ==
    /\ variant \in Variants
    /\ pc = "idle"
    /\ browser = "none"
    /\ openPages = NoPages
    /\ dom = NoPage
    /\ passLog = <<>>
    /\ mainLinks = NoLinks
    /\ footerLinks = NoLinks
    /\ menuLinks = NoLinks
    /\ menuPages = <<>>
    /\ menuIdx = 0
    /\ menuFound = NoLinks
    /\ resolved = NoLinks
    /\ error = NoError
    /\ tpc = [t \in Tasks |-> "off"]
    /\ call = [t \in Tasks |-> NoCall]
    /\ combined = NoSplit
    /\ result = NoResult
    /\ isPlaywrightVerified = FALSE
    /\ invocations = 0
    /\ setupChecks = 0
    /\ handler = "POST"
    /\ request \in Requests
    /\ response = NoResponse
    /\ pageContent = <<>>
    /\ truncatedContent = <<>>
    /\ apiKey = TRUE
    /\ launchers = NoLaunchers
    /\ document = <<>>
    /\ policyContainer = 0
    /\ completion = NoCompletion
    /\ analysis = NoAnalysis

\* A handler that validates nothing.
PostUnvalidated ==
    /\ handler = "POST"
    /\ IF request.body \in {"unreadable", "null"}
       THEN /\ Respond(500, "Failed to analyze website", BodyError(request.body))
            /\ UNCHANGED <<pc, invocations>>
       ELSE /\ handler' = "scraping"
            /\ pc' = "launch"
            /\ invocations' = invocations + 1
            /\ UNCHANGED response
    /\ UNCHANGED <<variant, browser, openPages, cascadeVars, error, extractVars,
                   isPlaywrightVerified, setupChecks, request, pageContent,
                   truncatedContent, apiKey, launchers,
      document, policyContainer,
      completion, analysis>>

\* POST up to "await scrapeWebsite(url)": the body is read, the url is
\* tested and parsed, and (in the second handler of the file) the API key
\* is looked for.
Post ==
    /\ handler = "POST"
    /\ IF request.body \in {"unreadable", "null"}
       THEN /\ Respond(500, "Failed to analyze website", BodyError(request.body))
            /\ UNCHANGED <<pc, invocations>>
       ELSE IF request.body = "noUrl" \/ request.url = <<>>
       THEN /\ Respond(400, "URL is required", NoResponse.details)
            /\ UNCHANGED <<pc, invocations>>
       ELSE IF ~parses(request.url)
       THEN /\ Respond(400, "Invalid URL format", NoResponse.details)
            /\ UNCHANGED <<pc, invocations>>
       ELSE \/ /\ Respond(500, "OpenAI API key not found", NoResponse.details)
               /\ UNCHANGED <<pc, invocations>>
            \/ /\ handler' = "scraping"
               /\ pc' = "launch"
               /\ invocations' = invocations + 1
               /\ UNCHANGED response
    /\ UNCHANGED <<variant, browser, openPages, cascadeVars, error, extractVars,
                   isPlaywrightVerified, setupChecks, request, pageContent,
                   truncatedContent, apiKey, launchers,
      document, policyContainer,
      completion, analysis>>

\* POST after scrapeWebsite has settled: the analysis and the response, or
\* the catch clause of the handler.
Answer ==
    /\ handler = "scraping"
    /\ \/ /\ pc = "returned"
          /\ \/ Respond(200, "", NoResponse.details)
             \/ Respond(500, "Failed to analyze website",
                        ErrorString("TypeError", "analysis", <<>>, ""))
       \/ /\ pc = "raised"
          /\ Respond(500, "Failed to analyze website", ScrapeError(error, request.url))
    /\ UNCHANGED <<variant, pc, browser, openPages, cascadeVars, error, extractVars,
                   isPlaywrightVerified, invocations, setupChecks, request,
                   pageContent, truncatedContent, apiKey, launchers,
      document, policyContainer,
      completion, analysis>>

SpecEndpoint == InitEndpoint /\ [][Post \/ Answer \/ NextFooterPrivacy]_vars

\* ------------------------------------------------------------------------
\* One process that invokes scrapeWebsite several times, each time on the
\* site above.
\* ------------------------------------------------------------------------

\* The next call of scrapeWebsite, made once the one before has settled: its
\* locals are new, what the module holds is what the earlier calls left.
Reinvoke ==
    /\ pc \in {"returned", "raised"}
    /\ invocations < MaxInvocations
    /\ invocations' = invocations + 1
    /\ pc' = "launch"
    /\ browser' = "none"
    /\ openPages' = NoPages
    /\ dom' = NoPage
    /\ passLog' = <<>>
    /\ mainLinks' = NoLinks
    /\ footerLinks' = NoLinks
    /\ menuLinks' = NoLinks
    /\ menuPages' = <<>>
    /\ menuIdx' = 0
    /\ menuFound' = NoLinks
    /\ resolved' = NoLinks
    /\ error' = NoError
    /\ tpc' = [t \in Tasks |-> "off"]
    /\ call' = [t \in Tasks |-> NoCall]
    /\ combined' = NoSplit
    /\ result' = NoResult
    /\ UNCHANGED <<variant, isPlaywrightVerified, setupChecks, handler, request,
                   response, pageContent, truncatedContent, apiKey, launchers,
      document, policyContainer,
      completion, analysis>>

SpecProcess == Init /\ [][Reinvoke \/ NextFooterPrivacy]_vars

\* ------------------------------------------------------------------------
\* launchBrowser of unnamed/part_001 step by step, called by scrapeWebsite
\* invocations that overlap in time: each await lets the other calls run.
\*   "idle":       not yet called
\*   "installing": awaiting execAsync('npx playwright install ...')
\*   "launch":     awaiting chromium.launch
\*   "launched", "failed": returned a browser, threw
\* ------------------------------------------------------------------------

InitOverlap ==
    /\ variant = "concurrent"
    /\ isPlaywrightVerified = FALSE
    /\ invocations = MaxInvocations
    /\ setupChecks = 0
    /\ handler = "none"
    /\ request = NoRequest
    /\ response = NoResponse
    /\ pageContent = <<>>
    /\ truncatedContent = <<>>
    /\ apiKey = TRUE
    /\ launchers = NoLaunchers
    /\ document = <<>>
    /\ policyContainer = 0
    /\ completion = NoCompletion
    /\ analysis = NoAnalysis
    /\ pc = "launch"
    /\ browser = "none"
    /\ openPages = NoPages
    /\ dom = NoPage
    /\ passLog = <<>>
    /\ mainLinks = NoLinks
    /\ footerLinks = NoLinks
    /\ menuLinks = NoLinks
    /\ menuPages = <<>>
    /\ menuIdx = 0
    /\ menuFound = NoLinks
    /\ resolved = NoLinks
    /\ error = NoError
    /\ tpc = [t \in Tasks |-> "off"]
    /\ call = [t \in Tasks |-> NoCall]
    /\ combined = NoSplit
    /\ result = NoResult

\* What a step of launchBrowser leaves alone.
launchFrame ==
    <<variant, pc, browser, openPages, cascadeVars, error, extractVars,
      invocations, handler, request, response, pageContent, truncatedContent,
      apiKey, document, policyContainer,
      completion, analysis>>

\* "if (!isPlaywrightVerified)", isPlaywrightInstalled(), and either
\* "isPlaywrightVerified = true" at once or the installation, awaited.
SetupCheck(i) ==
    /\ launchers[i] = "idle"
    /\ IF needsSetupCheck(variant, isPlaywrightVerified)
       THEN /\ setupChecks' = setupChecks + 1
            /\ \/ /\ isPlaywrightVerified' = TRUE
                  /\ launchers' = [launchers EXCEPT ![i] = "launch"]
               \/ /\ launchers' = [launchers EXCEPT ![i] = "installing"]
                  /\ UNCHANGED isPlaywrightVerified
       ELSE /\ launchers' = [launchers EXCEPT ![i] = "launch"]
            /\ UNCHANGED <<setupChecks, isPlaywrightVerified>>
    /\ UNCHANGED launchFrame

\* execAsync resolves, then "isPlaywrightVerified = true"; or it rejects and
\* the catch block throws.
Install(i) ==
    /\ launchers[i] = "installing"
    /\ \/ /\ isPlaywrightVerified' = TRUE
          /\ launchers' = [launchers EXCEPT ![i] = "launch"]
       \/ /\ launchers' = [launchers EXCEPT ![i] = "failed"]
          /\ UNCHANGED isPlaywrightVerified
    /\ UNCHANGED setupChecks
    /\ UNCHANGED launchFrame

\* chromium.launch resolves or rejects.
ChromiumLaunch(i) ==
    /\ launchers[i] = "launch"
    /\ \E end \in {"launched", "failed"} :
         launchers' = [launchers EXCEPT ![i] = end]
    /\ UNCHANGED <<setupChecks, isPlaywrightVerified>>
    /\ UNCHANGED launchFrame

SpecOverlap ==
    InitOverlap
        /\ [][\/ \E i \in 1..MaxInvocations : SetupCheck(i)
              \/ \E i \in 1..MaxInvocations : Install(i)
              \/ \E i \in 1..MaxInvocations : ChromiumLaunch(i)]_vars

\* ------------------------------------------------------------------------
\* The truncation of the page text on its own: any extraction has read the
\* text of its page and prepares what it puts into the prompt.
\* ------------------------------------------------------------------------

\* A page text runs to tens of thousands of characters, so it is held as
\* its runs, the character and the length of each stretch of one character
\* (never empty, never followed by a run of the same character).
\* String + String
RECURSIVE concat(_, _)
concat(a, b) ==
    IF b = <<>> THEN a
    ELSE IF a = <<>> THEN b
    ELSE IF a[Len(a)].c = b[1].c
    THEN concat(SubSeq(a, 1, Len(a) - 1)
                   \o <<[c |-> b[1].c, n |-> a[Len(a)].n + b[1].n]>>, Tail(b))
    ELSE a \o b

\* String.prototype.length
RECURSIVE length(_)
length(text) == IF text = <<>> THEN 0 ELSE Head(text).n + length(Tail(text))

\* String.prototype.substring(0, end)
RECURSIVE prefix(_, _)
prefix(text, end) ==
    IF end <= 0 \/ text = <<>> THEN <<>>
    ELSE IF Head(text).n >= end THEN <<[c |-> Head(text).c, n |-> end]>>
    ELSE <<Head(text)>> \o prefix(Tail(text), end - Head(text).n)

\* "pageContent.length > 80000 ? pageContent.substring(0, 80000) + ..."
ContentCap == 80000

\* '...[truncated]'
truncationMarker ==
    <<[c |-> ".", n |-> 3], [c |-> "[", n |-> 1], [c |-> "t", n |-> 1],
      [c |-> "r", n |-> 1], [c |-> "u", n |-> 1], [c |-> "n", n |-> 1],
      [c |-> "c", n |-> 1], [c |-> "a", n |-> 1], [c |-> "t", n |-> 1],
      [c |-> "e", n |-> 1], [c |-> "d", n |-> 1], [c |-> "]", n |-> 1]>>

\* A cut that keeps one character less than the cap.
truncatedOneShort(content) ==
    IF length(content) > ContentCap
    THEN concat(prefix(content, ContentCap - 1), truncationMarker)
    ELSE content

\* const truncatedContent = pageContent.length > 80000 ? ... : pageContent
truncated(content) ==
    IF length(content) > ContentCap
    THEN concat(prefix(content, ContentCap), truncationMarker)
    ELSE content

\* Page texts around the cap: n characters "x", the last `dots` of them
\* replaced by full stops.
PageTexts ==
    LET lengths == {0, 1, ContentCap - 1, ContentCap, ContentCap + 1,
                    ContentCap + length(truncationMarker), 2 * ContentCap}
    IN {concat(IF n > dots THEN <<[c |-> "x", n |-> n - dots]>> ELSE <<>>,
               IF dots > 0 /\ n > 0
               THEN <<[c |-> ".", n |-> IF n > dots THEN dots ELSE n]>> ELSE <<>>) :
           n \in lengths, dots \in 0..3}

\* The extractions that read a page.
PageTasks == DocTasks \cup {"combined"}

InitTruncate ==
    /\ variant \in Variants
    /\ pc = "await"
    /\ browser = "open"
    /\ openPages = NoPages
    /\ dom = NoPage
    /\ passLog = <<>>
    /\ mainLinks = NoLinks
    /\ footerLinks = NoLinks
    /\ menuLinks = NoLinks
    /\ menuPages = <<>>
    /\ menuIdx = 0
    /\ menuFound = NoLinks
    /\ resolved = NoLinks
    /\ error = NoError
    /\ call = [t \in Tasks |-> NoCall]
    /\ combined = NoSplit
    /\ result = NoResult
    /\ \E t \in PageTasks : tpc = [u \in Tasks |-> IF u = t THEN "evaluated" ELSE "off"]
    /\ isPlaywrightVerified = (variant = "concurrent")
    /\ invocations = 1
    /\ setupChecks = (IF variant = "concurrent" THEN 1 ELSE 0)
    /\ handler = "none"
    /\ request = NoRequest
    /\ response = NoResponse
    /\ pageContent \in PageTexts
    /\ truncatedContent = <<>>
    /\ apiKey = TRUE
    /\ launchers = NoLaunchers
    /\ document = <<>>
    /\ policyContainer = 0
    /\ completion = NoCompletion
    /\ analysis = NoAnalysis

\* The text is cut for the prompt, and the call is next.
Truncate ==
    /\ \E t \in PageTasks :
         /\ tpc[t] = "evaluated"
         /\ tpc' = [tpc EXCEPT ![t] = "call"]
    /\ truncatedContent' = truncated(pageContent)
    /\ UNCHANGED <<variant, pc, browser, openPages, cascadeVars, error, call,
                   combined, result, isPlaywrightVerified, invocations, setupChecks,
                   handler, request, response, pageContent, apiKey, launchers,
      document, policyContainer,
      completion, analysis>>

SpecTruncate == InitTruncate /\ [][Truncate]_vars

\* ------------------------------------------------------------------------
\* The callback of page.evaluate in scrapePageWithOpenAI and in
\* scrapePageForMultiplePolicies.  An element of the document is
\*   selectors: the selectors of possiblePolicyContainers it matches
\*   noise:     it is, or lies in, an element that elementsToRemove selects
\*   text:      its textContent, as runs of equal characters
\* ------------------------------------------------------------------------

possiblePolicyContainers ==
    <<".privacy-policy", ".privacy", ".policy-content", ".cookie-policy",
      "#privacy-policy", "#cookie-policy", ".terms-content", ".legal-content",
      "[data-content=\"privacy\"]", "[data-content=\"policy\"]",
      "article", "main", ".main-content", ".content-main", ".content">>

\* String.prototype.trim on runs.
RECURSIVE trimRuns(_)
trimRuns(text) ==
    IF text = <<>> THEN <<>>
    ELSE IF Head(text).c \in WhiteSpace THEN trimRuns(Tail(text))
    ELSE IF text[Len(text)].c \in WhiteSpace THEN trimRuns(SubSeq(text, 1, Len(text) - 1))
    ELSE text

\* A test that measures the text as it stands.
qualifiesUntrimmed(text) == text # <<>> /\ length(text) > 200

\* "container.textContent && container.textContent.trim().length > 200"
qualifies(text) == text # <<>> /\ length(trimRuns(text)) > 200

\* document.querySelector(selector), once the noise is removed: the first
\* element in document order that matches, as its index, or 0 for null.
querySelector(doc, selector) ==
    LET found == {i \in 1..Len(doc) : ~doc[i].noise /\ selector \in doc[i].selectors}
    IN IF found = {} THEN 0 ELSE CHOOSE i \in found : \A j \in found : i <= j

\* The for loop over possiblePolicyContainers, with its break.
RECURSIVE findContainer(_, _)
findContainer(doc, selectors) ==
    IF selectors = <<>> THEN 0
    ELSE LET container == querySelector(doc, Head(selectors)) IN
         IF container # 0 /\ qualifies(doc[container].text)
         THEN container
         ELSE findContainer(doc, Tail(selectors))

\* extractCleanText of the elements `from` on: the text nodes that are not
\* blank, joined with newlines.
RECURSIVE extractCleanText(_, _)
extractCleanText(doc, from) ==
    IF from > Len(doc) THEN <<>>
    ELSE LET rest == extractCleanText(doc, from + 1) IN
         IF doc[from].noise \/ trimRuns(doc[from].text) = <<>> THEN rest
         ELSE IF rest = <<>> THEN doc[from].text
         ELSE concat(concat(doc[from].text, <<[c |-> "\n", n |-> 1]>>), rest)

\* Most elements of a document.
MaxElements == 2

\* Elements that match none, one or two of the selectors, with no text,
\* with 200 characters after three spaces, and with 201 characters.
Documents ==
    LET elements ==
            [selectors : {{}, {".privacy"}, {"article"}, {".privacy", ".content"}},
             noise : BOOLEAN,
             text : {<<>>, <<[c |-> " ", n |-> 3], [c |-> "x", n |-> 200]>>,
                     <<[c |-> "y", n |-> 201]>>}]
    IN UNION {[1..n -> elements] : n \in 0..MaxElements}

InitSelect ==
    /\ variant \in Variants
    /\ pc = "await"
    /\ browser = "open"
    /\ dom = NoPage
    /\ passLog = <<>>
    /\ mainLinks = NoLinks
    /\ footerLinks = NoLinks
    /\ menuLinks = NoLinks
    /\ menuPages = <<>>
    /\ menuIdx = 0
    /\ menuFound = NoLinks
    /\ resolved = NoLinks
    /\ error = NoError
    /\ call = [t \in Tasks |-> NoCall]
    /\ combined = NoSplit
    /\ result = NoResult
    /\ \E t \in {"privacy", "combined"} :
         /\ tpc = [u \in Tasks |-> IF u = t THEN "evaluate" ELSE "off"]
         /\ openPages = opened(NoPages, t)
    /\ isPlaywrightVerified = (variant = "concurrent")
    /\ invocations = 1
    /\ setupChecks = (IF variant = "concurrent" THEN 1 ELSE 0)
    /\ handler = "none"
    /\ request = NoRequest
    /\ response = NoResponse
    /\ pageContent = <<>>
    /\ truncatedContent = <<>>
    /\ apiKey = TRUE
    /\ launchers = NoLaunchers
    /\ document \in Documents
    /\ policyContainer = 0
    /\ completion = NoCompletion
    /\ analysis = NoAnalysis

\* page.evaluate returns the text of the container, or of the body, and
\* the page is closed.
SelectContainer ==
    /\ \E t \in PageTasks :
         /\ tpc[t] = "evaluate"
         /\ tpc' = [tpc EXCEPT ![t] = "evaluated"]
         /\ openPages' = closed(openPages, t)
    /\ policyContainer' = findContainer(document, possiblePolicyContainers)
    /\ pageContent' =
          IF policyContainer' # 0
          THEN extractCleanText(SubSeq(document, policyContainer', policyContainer'), 1)
          ELSE extractCleanText(document, 1)
    /\ UNCHANGED <<variant, pc, browser, cascadeVars, error, call, combined, result,
                   isPlaywrightVerified, invocations, setupChecks, handler, request,
                   response, truncatedContent, apiKey, launchers, document,
                   completion, analysis>>

SpecSelect == InitSelect /\ [][SelectContainer \/ Truncate]_vars

\* ------------------------------------------------------------------------
\* The retry loop on its own: any call site makes its call, and the service
\* answers each request as it likes.
\* ------------------------------------------------------------------------

CallPositions(t) == IF t = "combined" THEN {"call", "call2"} ELSE {"call"}

InitRetry ==
    /\ variant \in Variants
    /\ HostLaunched
    /\ pc = "await"
    /\ browser = "open"
    /\ openPages = NoPages
    /\ dom = NoPage
    /\ passLog = <<>>
    /\ mainLinks = NoLinks
    /\ footerLinks = NoLinks
    /\ menuLinks = NoLinks
    /\ menuPages = <<>>
    /\ menuIdx = 0
    /\ menuFound = NoLinks
    /\ resolved = NoLinks
    /\ error = NoError
    /\ combined = NoSplit
    /\ result = NoResult
    /\ \E t \in Tasks : \E pos \in CallPositions(t) :
         /\ tpc = [u \in Tasks |-> IF u = t THEN pos ELSE "off"]
         /\ call = [u \in Tasks |-> IF u = t THEN startCall(variant, t, pos) ELSE NoCall]

\* One request of the call in progress.
Request ==
    /\ \E t \in Tasks :
         /\ call[t].status = "active"
         /\ \E outcome \in Outcomes :
              call' = [call EXCEPT ![t] = callOpenAIWithRetry(call[t], outcome)]
    /\ UNCHANGED <<variant, pc, browser, openPages, cascadeVars, error, tpc,
                   combined, result>>
    /\ UNCHANGED hostVars

SpecRetry == InitRetry /\ [][Request]_vars

\* ------------------------------------------------------------------------
\* The retry loop under any model argument: the one the call sites pass, the
\* default of the parameter, and another 'gpt-4' model.
\* ------------------------------------------------------------------------

Models == {FallbackModel, DefaultModel, <<"g", "p", "t", "-", "4", "o">>}

InitModels ==
    /\ variant \in Variants
    /\ HostLaunched
    /\ pc = "await"
    /\ browser = "open"
    /\ openPages = NoPages
    /\ dom = NoPage
    /\ passLog = <<>>
    /\ mainLinks = NoLinks
    /\ footerLinks = NoLinks
    /\ menuLinks = NoLinks
    /\ menuPages = <<>>
    /\ menuIdx = 0
    /\ menuFound = NoLinks
    /\ resolved = NoLinks
    /\ error = NoError
    /\ combined = NoSplit
    /\ result = NoResult
    /\ \E t \in Tasks : \E pos \in CallPositions(t) : \E model \in Models :
         /\ tpc = [u \in Tasks |-> IF u = t THEN pos ELSE "off"]
         /\ call = [u \in Tasks |->
                      IF u = t
                      THEN [startCall(variant, t, pos) EXCEPT !.model = model]
                      ELSE NoCall]

SpecModels == InitModels /\ [][Request]_vars

\* ------------------------------------------------------------------------
\* analyzeContentWithOpenAI (app/api/analyze/route.ts).  The content of a
\* completion is a sequence of tokens:
\*   "fence" three backquotes   "json"  the word after an opening fence
\*   " "    white space         "{" "}" braces
\*   "text" prose without braces, fences or white space at its ends
\*   "null" the JSON literal
\*   and the names of Members, each the members of a JSON object
\* ------------------------------------------------------------------------

\* Members of an object, by name: the type of its score, the score in
\* tenths when that is a number, and its issues.
Members ==
    [below |-> [scoreType |-> "number", score |-> -15, issues |-> "array"],
     half |-> [scoreType |-> "number", score |-> 845, issues |-> "array"],
     whole |-> [scoreType |-> "number", score |-> 900, issues |-> "undefined"],
     above |-> [scoreType |-> "number", score |-> 1204, issues |-> "string"],
     quoted |-> [scoreType |-> "string", score |-> 0, issues |-> "array"],
     nullIssue |-> [scoreType |-> "number", score |-> 900, issues |-> "nullElement"],
     noScore |-> [scoreType |-> "undefined", score |-> 0, issues |-> "array"]]

NoMembers == [scoreType |-> "undefined", score |-> 0, issues |-> "undefined"]

\* Math.round on tenths: to the nearest integer, a half going up.
round(tenths) == ((tenths + 5) \div 10) * 10

\* The first index from `i` on that holds no white space.
RECURSIVE skipSpace(_, _)
skipSpace(content, i) ==
    IF i <= Len(content) /\ content[i] = " " THEN skipSpace(content, i + 1) ELSE i

\* content.match(markdownPattern): the group of the
\* leftmost match, the shortest one from there, or <<>> when there is no match.
markdownMatch(content) ==
    LET at(i) == IF i >= 1 /\ i <= Len(content) THEN content[i] ELSE "end"
        open(i) == skipSpace(content, IF at(i + 1) = "json" THEN i + 2 ELSE i + 1)
        ends(i) == {j \in (open(i) + 1)..Len(content) :
                      content[j] = "}" /\ at(skipSpace(content, j + 1)) = "fence"}
        matches == {i \in 1..Len(content) :
                      content[i] = "fence" /\ at(open(i)) = "{" /\ ends(i) # {}}
    IN IF matches = {} THEN <<>>
       ELSE LET i == CHOOSE m \in matches : \A n \in matches : m <= n
                j == CHOOSE m \in ends(i) : \A n \in ends(i) : m <= n
            IN SubSeq(content, open(i), j)

\* indexOf and lastIndexOf of one token, 0 standing for -1.
indexOfToken(content, token) ==
    LET found == {i \in 1..Len(content) : content[i] = token}
    IN IF found = {} THEN 0 ELSE CHOOSE i \in found : \A j \in found : i <= j

lastIndexOf(content, token) ==
    LET found == {i \in 1..Len(content) : content[i] = token}
    IN IF found = {} THEN 0 ELSE CHOOSE i \in found : \A j \in found : j <= i

\* The text handed to JSON.parse: the group of the code block, or else
\* what lies from the first "{" to the last "}", or else the content.
jsonContent(content) ==
    LET firstBrace == indexOfToken(content, "{")
        lastBrace == lastIndexOf(content, "}")
    IN IF markdownMatch(content) # <<>> THEN markdownMatch(content)
       ELSE IF firstBrace # 0 /\ lastBrace # 0 /\ lastBrace > firstBrace
       THEN SubSeq(content, firstBrace, lastBrace)
       ELSE content

\* JSON.parse: white space around the value is allowed, anything else is
\* a SyntaxError.
RECURSIVE JSONparse(_)
JSONparse(text) ==
    IF text # <<>> /\ Head(text) = " " THEN JSONparse(Tail(text))
    ELSE IF text # <<>> /\ text[Len(text)] = " "
    THEN JSONparse(SubSeq(text, 1, Len(text) - 1))
    ELSE IF text = <<"null">> THEN [kind |-> "null", value |-> NoMembers]
    ELSE IF text = <<"{", "}">> THEN [kind |-> "object", value |-> NoMembers]
    ELSE IF Len(text) = 3 /\ text[1] = "{" /\ text[3] = "}" /\ text[2] \in DOMAIN Members
    THEN [kind |-> "object", value |-> Members[text[2]]]
    ELSE [kind |-> "SyntaxError", value |-> NoMembers]

\* "Validate and sanitize the response", and the catch of the inner try
\* block: its return of score 50.
sanitize(content) ==
    LET analysisResult == JSONparse(jsonContent(content)) IN
    IF analysisResult.kind = "object" /\ analysisResult.value.issues # "nullElement"
    THEN [status |-> "returned",
          score |-> IF analysisResult.value.scoreType = "number"
                    THEN Min(Max(round(analysisResult.value.score), 0), 1000)
                    ELSE 700,
          issues |-> IF analysisResult.value.issues = "array" THEN "sanitized" ELSE "empty"]
    ELSE [status |-> "returned", score |-> 500, issues |-> "parse-error"]

\* The analysis with no catch around the call of the service.
analyzeContentWithOpenAIUncaught(c, data) ==
    IF c.status = "thrown" \/ data.shape \in {"noChoices", "noUsage"}
    THEN [status |-> "raised", score |-> 0, issues |-> "none"]
    ELSE IF data.shape = "nullContent"
    THEN [status |-> "returned", score |-> 500, issues |-> "parse-error"]
    ELSE sanitize(data.content)

\* The two try blocks, once callOpenAIWithRetry has come to `c` and, where
\* it returned, to the data `data`: the outer catch returns score 40.
analyzeContentWithOpenAI(c, data) ==
    IF c.status = "thrown" \/ data.shape \in {"noChoices", "noUsage"}
    THEN [status |-> "returned", score |-> 400, issues |-> "api-error"]
    ELSE IF data.shape = "nullContent"
    THEN [status |-> "returned", score |-> 500, issues |-> "parse-error"]
    ELSE sanitize(data.content)

\* Contents: something before, a value or what is left of one, something
\* after.
Contents ==
    LET leading == {<<>>, <<"text", " ">>, <<"fence">>, <<"fence", "json", " ">>,
                   <<"text", "fence", "json">>, <<" ">>}
        value == {<<"{", m, "}">> : m \in DOMAIN Members}
                 \cup {<<"{", "}">>, <<"{", "half">>, <<"null">>, <<"text">>, <<>>,
                       <<"{", "half", "}", "text", "{", "whole", "}">>,
                       <<"{", "text", "}">>}
        trailing == {<<>>, <<" ", "fence">>, <<"fence", "text">>, <<" ", "text">>}
    IN {b \o v \o a : b \in leading, v \in value, a \in trailing}

\* What the service may answer with status 200:
\*   "complete":    choices[0].message.content is a string, usage is there
\*   "nullContent": choices[0].message.content is null
\*   "noChoices":   choices is empty
\*   "noUsage":     usage is missing
Completions ==
    [shape : {"complete"}, content : Contents]
    \cup [shape : {"nullContent", "noChoices", "noUsage"}, content : {<<>>}]

InitAnalyze ==
    /\ variant = "sequential"
    /\ pc = "returned"
    /\ browser = "closed"
    /\ openPages = NoPages
    /\ dom = NoPage
    /\ passLog = <<>>
    /\ mainLinks = NoLinks
    /\ footerLinks = NoLinks
    /\ menuLinks = NoLinks
    /\ menuPages = <<>>
    /\ menuIdx = 0
    /\ menuFound = NoLinks
    /\ resolved = NoLinks
    /\ error = NoError
    /\ combined = NoSplit
    /\ result = NoResult
    /\ tpc = [u \in Tasks |-> IF u = "analyze" THEN "call" ELSE "off"]
    /\ call = [u \in Tasks |->
                 IF u = "analyze" THEN startCall(variant, u, "call") ELSE NoCall]
    /\ isPlaywrightVerified = FALSE
    /\ invocations = 1
    /\ setupChecks = 0
    /\ handler = "none"
    /\ request = NoRequest
    /\ response = NoResponse
    /\ pageContent = <<>>
    /\ truncatedContent = <<>>
    /\ apiKey = TRUE
    /\ launchers = NoLaunchers
    /\ document = <<>>
    /\ policyContainer = 0
    /\ completion \in Completions
    /\ analysis = NoAnalysis

\* callOpenAIWithRetry has returned or thrown, and analyzeContentWithOpenAI
\* comes to its end.
Analyze ==
    /\ \E t \in {"analyze"} :
         /\ tpc[t] = "call"
         /\ call[t].status \in {"returned", "thrown"}
         /\ analysis' = analyzeContentWithOpenAI(call[t], completion)
         /\ tpc' = [tpc EXCEPT ![t] = "done"]
    /\ UNCHANGED <<variant, pc, browser, openPages, cascadeVars, error, call, combined,
                   result, isPlaywrightVerified, invocations, setupChecks, handler,
                   request, response, pageContent, truncatedContent, apiKey,
                   launchers, document, policyContainer, completion>>

SpecAnalyze == InitAnalyze /\ [][Request \/ Analyze]_vars

\* ------------------------------------------------------------------------
\* The marker split on its own: the first call of
\* scrapePageForMultiplePolicies has returned some content, made of at most
\* MaxPieces pieces, each a marker or a stretch of text.
\* ------------------------------------------------------------------------

MaxPieces == 4

NewLine == <<"\n">>

\* Marker-free policy texts: plain, with white space at either end, empty.
PolicyTexts == {<<"a", " ", "b">>, <<" ", "c", " ">>, <<>>}

Pieces ==
    {privacyMarker, cookieMarker}
        \cup {NewLine \o P \o NewLine : P \in PolicyTexts}
        \cup {NewLine \o P : P \in PolicyTexts}

RECURSIVE join(_)
join(pieces) == IF pieces = <<>> THEN <<>> ELSE Head(pieces) \o join(Tail(pieces))

InitSplit ==
    /\ variant \in Variants
    /\ HostLaunched
    /\ pc = "await"
    /\ browser = "open"
    /\ openPages = NoPages
    /\ dom = NoPage
    /\ passLog = <<>>
    /\ mainLinks = NoLinks
    /\ footerLinks = NoLinks
    /\ menuLinks = NoLinks
    /\ menuPages = <<>>
    /\ menuIdx = 0
    /\ menuFound = NoLinks
    /\ resolved = NoLinks
    /\ error = NoError
    /\ call = [u \in Tasks |-> NoCall]
    /\ result = NoResult
    /\ tpc = [u \in Tasks |-> IF u = "combined" THEN "split" ELSE "off"]
    /\ \E n \in 0..MaxPieces : \E pieces \in [1..n -> Pieces] :
         combined = [NoSplit EXCEPT !.content = join(pieces)]

\* const content = data.choices[0].message.content, and the marker split.
Split ==
    /\ tpc["combined"] = "split"
    /\ LET split == splitPolicies(combined.content) IN
       combined' = [combined EXCEPT !.privacyPolicy = split.privacyPolicy,
                                    !.cookiePolicy = split.cookiePolicy]
    /\ tpc' = [tpc EXCEPT !["combined"] = "sections"]
    /\ UNCHANGED <<variant, pc, browser, openPages, cascadeVars, error, call, result>>
    /\ UNCHANGED hostVars

SpecSplit == InitSplit /\ [][Split]_vars

\* ------------------------------------------------------------------------
\* Properties of the link discovery cascade (SpecCascade)
\* ------------------------------------------------------------------------

Categories == {"termsLink", "privacyLink", "cookieLink"}

\* The positions of scrapeWebsite from which findComplianceLinks, the first
\* gate and findFooterLinks, the second gate are behind it.
PastFirstGate == {"footer", "gate", "menu", "menuLoop", "consolidate", "extract"}
PastSecondGate == {"menu", "menuLoop", "consolidate", "extract"}

ran(pass) == \E i \in 1..Len(passLog) : passLog[i] = pass

\* C1: once the links are consolidated, each category holds the MainPage
\* match if there is one, else the FooterPass match, else the MenuPass match,
\* else nothing; what an earlier pass found is never replaced by what a later
\* pass found.
C1_CascadeMerge ==
    pc = "extract" =>
        \A c \in Categories :
            /\ mainLinks[c] # null => resolved[c] = mainLinks[c]
            /\ (mainLinks[c] = null /\ footerLinks[c] # null) =>
                   resolved[c] = footerLinks[c]
            /\ (mainLinks[c] = null /\ footerLinks[c] = null) =>
                   resolved[c] = menuLinks[c]

\* C1 witness: the main page and the footer found different cookie links and
\* the main one was kept, while the terms link came from the menu pass.
C1_Witness ==
    /\ pc = "extract"
    /\ mainLinks.cookieLink # null
    /\ footerLinks.cookieLink # null
    /\ footerLinks.cookieLink # mainLinks.cookieLink
    /\ resolved.cookieLink = mainLinks.cookieLink
    /\ mainLinks.termsLink = null
    /\ footerLinks.termsLink = null
    /\ menuLinks.termsLink # null
    /\ resolved.termsLink = menuLinks.termsLink

\* Every category is resolved by the main page, the footer or the sub-pages
\* visited so far.
CascadeResolved ==
    \A c \in Categories :
        mainLinks[c] # null \/ footerLinks[c] # null \/ menuFound[c] # null

\* C2 (as the specification states it): the menu pass is never about to load
\* a further candidate once the cascade has resolved all three categories,
\* and it never loads more than three.
C2_StopsWhenResolved ==
    /\ menuIdx <= 3
    /\ (pc = "menuLoop" /\ menuIdx < Len(menuPages)) => ~CascadeResolved

\* C3: FooterPass has run exactly when a category was missing after MainPage,
\* and MenuPass exactly when a category was missing from both MainPage and
\* FooterPass.
C3_PassGating ==
    /\ pc \in PastFirstGate \ {"footer"} =>
          (ran("FooterPass") <=> \E c \in Categories : mainLinks[c] = null)
    /\ pc \in PastSecondGate \ {"menu"} =>
          (ran("MenuPass") <=>
              \E c \in Categories : mainLinks[c] = null /\ footerLinks[c] = null)
    /\ pc \in PastFirstGate => ran("MainPage")

\* C3 witness: the footer resolved what the main page lacked, and the cascade
\* went on to the consolidation without the menu pass.
C3_Witness ==
    /\ pc = "extract"
    /\ passLog = <<"MainPage", "FooterPass">>
    /\ \E c \in Categories : mainLinks[c] = null /\ footerLinks[c] # null

\* `a` is what a search of `links` for the first link satisfying P must give.
isFirstMatch(a, links, P(_)) ==
    IF a = null
    THEN \A i \in 1..Len(links) : ~P(Link(links[i]))
    ELSE \E i \in 1..Len(links) :
            /\ links[i] = a
            /\ P(Link(a))
            /\ \A j \in 1..(i - 1) : ~P(Link(links[j]))

\* C4: on the page just loaded, findComplianceLinks and findFooterLinks give
\* for each category one link at most: the first link in DOM order that
\* satisfies the category's keyword predicate, and null when none does.
C4_FirstInDomOrder ==
    /\ pc \in {"footer", "gate"} =>
          /\ isFirstMatch(mainLinks.termsLink, dom.links, isTermsLink)
          /\ isFirstMatch(mainLinks.privacyLink, dom.links, isPrivacyLink)
          /\ isFirstMatch(mainLinks.cookieLink, dom.links, isCookieLink)
    /\ (pc = "gate" /\ ran("FooterPass")) =>
          /\ isFirstMatch(footerLinks.termsLink, footerAnchors(dom), isFooterTermsLink)
          /\ isFirstMatch(footerLinks.privacyLink, footerAnchors(dom), isFooterPrivacyLink)
          /\ isFirstMatch(footerLinks.cookieLink, footerAnchors(dom), isFooterCookieLink)

\* C4 witness: two different links of the page satisfy the cookie predicate,
\* in the footer too, and the classifiers returned the earlier one.
C4_Witness ==
    /\ pc = "gate"
    /\ ran("FooterPass")
    /\ \E i, j \in 1..Len(dom.links) :
          /\ i < j
          /\ Len(dom.links) - dom.footer < i
          /\ dom.links[i] # dom.links[j]
          /\ isCookieLink(Link(dom.links[i]))
          /\ isCookieLink(Link(dom.links[j]))
          /\ mainLinks.cookieLink = dom.links[i]
          /\ footerLinks.cookieLink = dom.links[i]

\* ------------------------------------------------------------------------
\* Properties of the retry loop (SpecRetry)
\* ------------------------------------------------------------------------

C7_AtMostBudget ==
    \A t \in Tasks :
        call[t].status # "idle" =>
            /\ call[t].retries \in 2..4
            /\ call[t].requests <= call[t].retries

\* C7 (amended): a call whose site passes `retries` = R, R between 2 and 4,
\* sends at most R + 1 requests, the first attempt and R retries; it has
\* thrown once R + 1 requests were rejected.
C7_AtMostBudgetPlusOne ==
    \A t \in Tasks :
        call[t].status # "idle" =>
            /\ call[t].retries \in 2..4
            /\ call[t].requests <= call[t].retries + 1
            /\ call[t].requests = call[t].retries + 1 => call[t].status # "active"

\* C7 witness: a call with retries = 4 has sent its fifth request and given up.
C7_Witness ==
    \E t \in Tasks :
        /\ call[t].retries = 4
        /\ call[t].requests = 5
        /\ call[t].status = "thrown"
        /\ call[t].lastError.kind = "rateLimit"

\* ------------------------------------------------------------------------
\* Properties of the whole pipeline (Spec)
\* ------------------------------------------------------------------------

Slots == {"termsOfService", "privacyPolicy", "cookiePolicy"}

\* The documents a step extracts.
slotsOf(t) ==
    IF t = "combined" THEN {"privacyPolicy", "cookiePolicy"} ELSE {slotOf(t)}

\* Positions of an extraction at which it holds no page: before newPage,
\* after page.close(), and once it has returned.
PageFree == {"off", "newPage", "call", "call2", "done", "rejected"}

\* C5 (as the specification states it): a page opened by a step is closed
\* when the step is over: no menu sub-page is open between two visits, and an
\* extraction holds a page only between its newPage and its page.close().
C5_PagesClosedByStep ==
    /\ openPages["menu"] = 0
    /\ \A t \in DocTasks \cup {"combined"} : tpc[t] \in PageFree => openPages[t] = 0

\* C8: a single-document extraction or the cookie derivation that ends does not
\* raise to scrapeWebsite: it returns a text, and when its page could not be
\* opened, loaded or read, or its call threw (a failure that is not a rate
\* limit, or the last retry used up), a failure string embedding that error.
C8_ErrorAsData ==
    [][\A t \in DocTasks \cup {"derive"} :
          (tpc[t] \notin {"off", "done"} /\ tpc'[t] = "done") =>
             LET r == result'[slotOf(t)] IN
             /\ error' = error
             /\ pc' = "raised" => pc = "raised"
             /\ r.kind \in {"text", "empty", "failed"}
             /\ tpc[t] = "newPage" =>
                   (r.kind = "failed" /\ r.detail = [kind |-> "newPage", at |-> t])
             /\ tpc[t] = "goto" =>
                   (r.kind = "failed" /\ r.detail = [kind |-> "navigation", at |-> t])
             /\ tpc[t] = "evaluate" =>
                   (r.kind = "failed" /\ r.detail = [kind |-> "evaluate", at |-> t])
             /\ (tpc[t] = "call" /\ r.kind = "failed") =>
                   /\ r.detail \in ServiceErrors
                   /\ \/ call[t].retryCount = call[t].retries
                      \/ (call[t].client = "openai" /\ r.detail.kind = "server")
      ]_vars

\* C8 witness: the pipeline returned although the terms page could not be
\* loaded and the cookie derivation used up its retries: both are failure
\* strings that carry their error.
C8_Witness ==
    /\ pc = "returned"
    /\ result.termsOfService.kind = "failed"
    /\ result.termsOfService.detail.kind = "navigation"
    /\ result.privacyPolicy.kind = "text"
    /\ tpc["derive"] = "done"
    /\ result.cookiePolicy.kind = "failed"
    /\ result.cookiePolicy.detail.kind = "rateLimit"

\* C9: when the navigation to a resolved document page fails, the documents
\* of that page become failure strings, nothing is raised, no other document
\* and no other extraction is touched, and the sequential pipeline goes on
\* with the next document; a result that is returned holds something for
\* every resolved document.
C9_SiblingIsolation ==
    [][/\ \A t \in DocTasks \cup {"combined"} :
             (tpc[t] = "goto" /\ tpc'[t] = "done") =>
                /\ error' = error
                /\ pc' = "raised" => pc = "raised"
                /\ pc = "await" => pc' \in {"afterTerms", "afterPrivacy", "return"}
                /\ \A s \in slotsOf(t) :
                      /\ result'[s].kind = "failed"
                      /\ result'[s].detail.kind = "navigation"
                /\ \A s \in Slots \ slotsOf(t) : result'[s] = result[s]
                /\ \A u \in Tasks \ {t} : tpc'[u] = tpc[u]
       /\ pc' = "returned" =>
             /\ resolved.termsLink # null => result'.termsOfService.kind # "null"
             /\ resolved.privacyLink # null => result'.privacyPolicy.kind # "null"
             /\ resolved.cookieLink # null => result'.cookiePolicy.kind # "null"
      ]_vars

\* C9 witness: the privacy page could not be loaded, and the result returned
\* holds its failure string next to the texts of the terms and of the cookies.
C9_Witness ==
    /\ pc = "returned"
    /\ resolved.termsLink # null
    /\ resolved.cookieLink # null
    /\ result.privacyPolicy.kind = "failed"
    /\ result.privacyPolicy.detail = [kind |-> "navigation", at |-> "privacy"]
    /\ result.termsOfService.kind = "text"
    /\ result.cookiePolicy.kind = "text"

\* C10 (as the specification states it): scrapeWebsite raises only for a
\* failure of the browser or of the root page; whatever fails on a document
\* page ends in the returned result.
C10_RaisesOnlyAtRoot ==
    pc = "raised" => error.at \in {"browser", "root"}

\* ------------------------------------------------------------------------
\* Properties of the marker split (SpecSplit)
\* ------------------------------------------------------------------------

SplitDone == tpc["combined"] = "sections"

\* "PRIVACY POLICY:\nP\nCOOKIE POLICY:\nC"
BothSections(P, C) ==
    privacyMarker \o NewLine \o P \o NewLine \o cookieMarker \o NewLine \o C

\* "PRIVACY POLICY:\nP"
PrivacySection(P) == privacyMarker \o NewLine \o P

\* C15, as stated: for marker-free P and C, the split of
\* "PRIVACY POLICY:\nP\nCOOKIE POLICY:\nC" is privacy = P and cookie = C, and
\* the split of "PRIVACY POLICY:\nP" is privacy = P and the default "no
\* cookie policy" sentence.
C15_SplitReturnsSections ==
    SplitDone =>
        \A P \in PolicyTexts :
           /\ \A C \in PolicyTexts :
                 combined.content = BothSections(P, C) =>
                    /\ combined.privacyPolicy = P
                    /\ combined.cookiePolicy = C
           /\ combined.content = PrivacySection(P) =>
                 /\ combined.privacyPolicy = P
                 /\ combined.cookiePolicy = DefaultCookiePolicy

\* C15, amended: the split returns each section trimmed of the white space
\* at its ends: privacy = trim(P) and cookie = trim(C), and for the privacy
\* section alone privacy = trim(P) and the default "no cookie policy"
\* sentence.
C15_SplitReturnsTrimmedSections ==
    SplitDone =>
        \A P \in PolicyTexts :
           /\ \A C \in PolicyTexts :
                 combined.content = BothSections(P, C) =>
                    /\ combined.privacyPolicy = Trim(P)
                    /\ combined.cookiePolicy = Trim(C)
           /\ combined.content = PrivacySection(P) =>
                 /\ combined.privacyPolicy = Trim(P)
                 /\ combined.cookiePolicy = DefaultCookiePolicy

\* Both sections were split off an answer whose cookie text had white space
\* at its ends.
C15_Witness ==
    /\ SplitDone
    /\ \E P, C \in PolicyTexts :
          /\ P # <<>> /\ C # Trim(C)
          /\ combined.content = BothSections(P, C)
          /\ combined.privacyPolicy = Trim(P)
          /\ combined.cookiePolicy = Trim(C)

\* k occurs in s at position i (from 0).
occursAt(s, k, i) == i + Len(k) <= Len(s) /\ SubSeq(s, i + 1, i + Len(k)) = k

\* The position of the first occurrence of k in s, or -1.
firstOccurrence(s, k) ==
    IF \E i \in 0..Len(s) : occursAt(s, k, i)
    THEN CHOOSE i \in 0..Len(s) :
            occursAt(s, k, i) /\ \A j \in 0..(i - 1) : ~occursAt(s, k, j)
    ELSE -1

\* The text of s from position a up to position b, trimmed.
between(s, a, b) == Trim(SubSeq(s, a + 1, b))

\* C16: the split does not depend on the order of the markers.  With both
\* markers in the answer, the text between the earlier and the later one is
\* the earlier one's document and the text after the later one is the later
\* one's; with one marker, the text after it is its document and the other
\* document is its default sentence; with none, both are the defaults.
C16_OrderAgnosticSplit ==
    SplitDone =>
        LET s == combined.content
            p == firstOccurrence(s, privacyMarker)
            c == firstOccurrence(s, cookieMarker)
            afterP == p + Len(privacyMarker)
            afterC == c + Len(cookieMarker)
        IN  /\ (p # -1 /\ c # -1 /\ p < c) =>
                  /\ combined.privacyPolicy = between(s, afterP, c)
                  /\ combined.cookiePolicy = between(s, afterC, Len(s))
            /\ (p # -1 /\ c # -1 /\ c < p) =>
                  /\ combined.cookiePolicy = between(s, afterC, p)
                  /\ combined.privacyPolicy = between(s, afterP, Len(s))
            /\ (p # -1 /\ c = -1) =>
                  /\ combined.privacyPolicy = between(s, afterP, Len(s))
                  /\ combined.cookiePolicy = DefaultCookiePolicy
            /\ (p = -1 /\ c # -1) =>
                  /\ combined.cookiePolicy = between(s, afterC, Len(s))
                  /\ combined.privacyPolicy = DefaultPrivacyPolicy
            /\ (p = -1 /\ c = -1) =>
                  /\ combined.privacyPolicy = DefaultPrivacyPolicy
                  /\ combined.cookiePolicy = DefaultCookiePolicy

\* An answer with the cookie section first was split into two texts.
C16_Witness ==
    /\ SplitDone
    /\ firstOccurrence(combined.content, cookieMarker) # -1
    /\ firstOccurrence(combined.content, cookieMarker)
          < firstOccurrence(combined.content, privacyMarker)
    /\ combined.privacyPolicy # <<>>
    /\ combined.cookiePolicy # <<>>
    /\ combined.privacyPolicy # combined.cookiePolicy

\* ------------------------------------------------------------------------
\* Properties of the combined page (Spec)
\* ------------------------------------------------------------------------

\* The step in which the second call of scrapePageForMultiplePolicies ends.
CookieSectionsEnd == tpc["combined"] = "call2" /\ tpc'["combined"] = "done"

\* C11: a failure of the extraction service replaces only the text of the
\* document whose call failed.  A single-document extraction that ends leaves
\* the other two texts as they were, and when the second (cookie sections)
\* call of a combined page ends, failed or not, the privacy text of the split
\* is what is returned as privacyPolicy.
C11_OnlyFailedTextReplaced ==
    [][ /\ (tpc["terms"] # "done" /\ tpc'["terms"] = "done") =>
              /\ result'.privacyPolicy = result.privacyPolicy
              /\ result'.cookiePolicy = result.cookiePolicy
        /\ (tpc["privacy"] # "done" /\ tpc'["privacy"] = "done") =>
              /\ result'.termsOfService = result.termsOfService
              /\ result'.cookiePolicy = result.cookiePolicy
        /\ (tpc["cookie"] # "done" /\ tpc'["cookie"] = "done") =>
              /\ result'.termsOfService = result.termsOfService
              /\ result'.privacyPolicy = result.privacyPolicy
        /\ CookieSectionsEnd =>
              result'.privacyPolicy = textOf("privacy", combined.privacyPolicy)
      ]_vars

\* C17: the second, narrower call is made exactly when the cookie text of
\* the split holds a "no cookie policy" sentence; its answer replaces the
\* cookie text exactly when it does not hold "No cookie information found";
\* the step leaves the privacy text of the split as it was.
C17_CookieSectionsStep ==
    [][ /\ tpc'["combined"] = "call2" => needsCookieSections(combined'.cookiePolicy)
        /\ (tpc["combined"] = "call" /\ tpc'["combined"] = "done") =>
              result'.cookiePolicy.kind # "notFound"
        /\ (CookieSectionsEnd /\ result'.cookiePolicy.kind # "failed") =>
              \E content \in CookieSectionReplies :
                 result'.cookiePolicy =
                    textOf("cookie",
                           IF Includes(Trim(content), NoCookieInformation)
                           THEN combined.cookiePolicy
                           ELSE Trim(content))
        /\ CookieSectionsEnd =>
              result'.privacyPolicy = textOf("privacy", combined.privacyPolicy)
      ]_vars

\* The resolved privacy link and cookie link have the same address.
SameAddress ==
    /\ resolved.privacyLink # null
    /\ resolved.cookieLink # null
    /\ href[resolved.privacyLink] = href[resolved.cookieLink]

\* C12: when the resolved privacy link and cookie link have the same
\* address, the privacy and the cookie single-document extractions are never
\* started, the combined extraction is started once and never again, and it
\* has ended when scrapeWebsite returns; with different addresses no combined
\* extraction is started.
C12_OneCombinedExtraction ==
    /\ [](SameAddress => tpc["privacy"] = "off" /\ tpc["cookie"] = "off")
    /\ [](~SameAddress => tpc["combined"] = "off")
    /\ []((SameAddress /\ pc \in {"return", "returned"}) => tpc["combined"] = "done")
    /\ [][(tpc'["combined"] = "newPage" /\ tpc["combined"] # "newPage") =>
             tpc["combined"] = "off"]_vars

\* scrapeWebsite has returned the two texts of a combined page, next to the
\* terms.
C12_Witness ==
    /\ pc = "returned"
    /\ SameAddress
    /\ tpc["combined"] = "done"
    /\ tpc["terms"] = "done"
    /\ result.privacyPolicy.kind = "text"
    /\ result.cookiePolicy.kind = "text"

\* ------------------------------------------------------------------------
\* Properties of the cookie derivation (Spec)
\* ------------------------------------------------------------------------

\* C14: the call that derives the cookie text from the privacy text is made
\* only when the cascade found no cookie link; it has been made by the time
\* scrapeWebsite returns whenever no cookie link was found and a privacy text
\* was obtained; and what it returns becomes the cookie document, the other
\* two documents staying as they were.
C14_DerivationIffNoCookieLink ==
    /\ [](tpc["derive"] # "off" => resolved.cookieLink = null)
    /\ []((pc \in {"return", "returned"} /\ resolved.cookieLink = null
             /\ truthy(result.privacyPolicy)) => tpc["derive"] = "done")
    /\ [][(tpc["derive"] = "call" /\ tpc'["derive"] = "done") =>
             /\ result'.termsOfService = result.termsOfService
             /\ result'.privacyPolicy = result.privacyPolicy
             /\ result'.cookiePolicy.kind \in {"text", "empty", "failed"}]_vars

\* ------------------------------------------------------------------------
\* Properties of the site with one footer link (SpecFooterPrivacy)
\* ------------------------------------------------------------------------

\* C13, as stated: for the root page whose only compliance link is the
\* footer link "Privacy Policy" to /privacy, the result returned has
\* privacyPolicy set, and termsOfService and cookiePolicy null.
C13_OnlyPrivacyPopulated ==
    pc = "returned" =>
        /\ resolved = [termsLink |-> null, privacyLink |-> PrivacyPolicyAnchor,
                       cookieLink |-> null]
        /\ result.privacyPolicy # NullText
        /\ result.termsOfService = NullText
        /\ result.cookiePolicy = NullText

\* C13, amended: for that root page the result returned has privacyPolicy
\* set and termsOfService null; cookiePolicy is what the derivation of the
\* cookie text from the privacy text returned (a text, the empty string or a
\* failure string), and it is null only when the privacy text is the empty
\* string, for which no derivation is made.
C13_PrivacyAndDerivedCookie ==
    pc = "returned" =>
        /\ resolved = [termsLink |-> null, privacyLink |-> PrivacyPolicyAnchor,
                       cookieLink |-> null]
        /\ result.privacyPolicy # NullText
        /\ result.termsOfService = NullText
        /\ IF truthy(result.privacyPolicy)
           THEN /\ tpc["derive"] = "done"
                /\ result.cookiePolicy # NullText
                /\ result.cookiePolicy \in
                      {Text("derive"), EmptyText}
                         \cup {Failed("derive", e) : e \in ServiceErrors}
           ELSE /\ tpc["derive"] = "off"
                /\ result.cookiePolicy = NullText

\* The result is returned with the privacy text and a cookie text derived
\* from it.
C13_Witness ==
    /\ pc = "returned"
    /\ resolved.privacyLink = PrivacyPolicyAnchor
    /\ result.privacyPolicy = Text("privacy")
    /\ result.termsOfService = NullText
    /\ result.cookiePolicy = Text("derive")

\* ------------------------------------------------------------------------
\* Properties of the scheduling (Spec)
\* ------------------------------------------------------------------------

\* scrapeWebsite is at or before the end of the cascade.
CascadePositions ==
    {"launch", "newPage", "goto", "main", "footer", "gate", "menu", "menuLoop",
     "consolidate", "extract"}

\* An extraction that has started and not ended.
active(t) == tpc[t] \notin {"off", "done", "rejected"}

\* C18: the passes run one after another in the order MainPage, FooterPass,
\* MenuPass, a pass starting only when scrapeWebsite stands at its gate; while
\* the cascade runs no extraction has started, nothing has been extracted and
\* no call is in progress; an extraction starts only once the links are
\* consolidated, and leaves them as they are; and the sequential variant
\* never has two extractions in progress.
C18_PassesThenExtractions ==
    /\ [](passLog \in {<<>>, <<"MainPage">>, <<"MainPage", "FooterPass">>,
                       <<"MainPage", "FooterPass", "MenuPass">>})
    /\ [][passLog' # passLog =>
             \/ pc = "main" /\ passLog' = <<"MainPage">>
             \/ pc = "footer" /\ passLog' = <<"MainPage", "FooterPass">>
             \/ pc = "menu" /\ passLog' = <<"MainPage", "FooterPass", "MenuPass">>
             \/ pc = "extract" /\ passLog' = <<>>]_vars
    /\ [](pc \in CascadePositions =>
             /\ \A t \in Tasks : tpc[t] = "off" /\ call[t] = NoCall
             /\ result = NoResult)
    /\ [][(\E t \in Tasks : tpc[t] = "off" /\ tpc'[t] # "off") =>
             /\ pc \notin CascadePositions \ {"extract"}
             /\ resolved' = resolved]_vars
    /\ [](variant = "sequential" =>
             \A t, u \in Tasks : (active(t) /\ active(u)) => t = u)

\* The three passes have run, in their order, the links are consolidated and
\* no extraction has started yet.
C18_Witness ==
    /\ pc = "extract"
    /\ passLog = <<"MainPage", "FooterPass", "MenuPass">>
    /\ resolved.termsLink # null
    /\ resolved.privacyLink # null
    /\ \A t \in Tasks : tpc[t] = "off"

\* ------------------------------------------------------------------------
\* Properties of the menu pass (SpecCascade)
\* ------------------------------------------------------------------------

\* A visit of the menu pass fails after its page was opened: the page stays
\* open.
MenuVisitFails == openPages'["menu"] > openPages["menu"]

\* C19: a navigation error on a page of the menu pass is not raised: the
\* cascade stays in the loop and goes on to the next candidate, what this
\* pass and the earlier passes found stays as it was, no error of the menu
\* pass is ever raised out of scrapeWebsite, and what the loop found is what
\* the pass returns to the consolidation.
C19_MenuErrorSwallowed ==
    /\ [][MenuVisitFails =>
             /\ pc = "menuLoop" /\ pc' = "menuLoop"
             /\ menuIdx' = menuIdx + 1
             /\ menuPages' = menuPages
             /\ menuFound' = menuFound
             /\ mainLinks' = mainLinks
             /\ footerLinks' = footerLinks
             /\ error' = error
             /\ browser' = browser]_vars
    /\ [](pc = "raised" => error.at # "menu")
    /\ []((pc = "extract" /\ ran("MenuPass")) =>
             /\ menuLinks = menuFound
             /\ \A c \in Categories :
                   (mainLinks[c] = null /\ footerLinks[c] = null) =>
                      resolved[c] = menuFound[c])

\* A page of the menu pass failed, and the terms link another page of the
\* pass held is in the consolidated links.
C19_Witness ==
    /\ pc = "extract"
    /\ openPages["menu"] >= 1
    /\ menuIdx >= 2
    /\ mainLinks.termsLink = null
    /\ footerLinks.termsLink = null
    /\ menuFound.termsLink # null
    /\ resolved.termsLink = menuFound.termsLink

\* ------------------------------------------------------------------------
\* Properties of the concurrent extractions (Spec)
\* ------------------------------------------------------------------------

\* The concurrent variant awaits the extractions of documents that are on
\* distinct pages.
DistinctPagesAwaited == variant = "concurrent" /\ pc = "awaitAll" /\ ~SameAddress

\* The variable of the result that the extraction of document t is to set.
ownSlot ==
    [t \in DocTasks |->
        CASE t = "terms" -> "termsOfService"
          [] t = "privacy" -> "privacyPolicy"
          [] t = "cookie" -> "cookiePolicy"]

\* What belongs to the extraction of document t.
ownState(t) == <<tpc[t], call[t], openPages[t], result[ownSlot[t]]>>

\* C20: in the concurrent variant, with the documents on distinct pages, a
\* step of one extraction changes nothing that belongs to another (its
\* position, its call, its page, its slot of the result); an extraction holds
\* at most one page, its own; and a slot is written by its own extraction
\* only, when that extraction ends, with a text of its own document.  What
\* each slot holds when all have ended therefore does not depend on the order
\* in which the extractions advance and end.
C20_IndependentExtractions ==
    /\ [][DistinctPagesAwaited =>
             \A t, u \in DocTasks :
                (t # u /\ ownState(t)' # ownState(t)) => ownState(u)' = ownState(u)]_vars
    /\ [](DistinctPagesAwaited =>
             \A t \in DocTasks :
                /\ openPages[t] <= 1
                /\ tpc[t] \in {"goto", "evaluate"} => openPages[t] = 1
                /\ openPages["combined"] = 0
                /\ IF tpc[t] = "done"
                   THEN result[ownSlot[t]] # NullText
                        /\ result[ownSlot[t]].doc \in {t, "none"}
                   ELSE result[ownSlot[t]] = NullText)

\* The cookie extraction, started last, has ended with its text while the
\* terms and the privacy extractions each hold their page.
C20_Witness ==
    /\ DistinctPagesAwaited
    /\ tpc["cookie"] = "done"
    /\ result.cookiePolicy = Text("cookie")
    /\ tpc["terms"] = "goto"
    /\ tpc["privacy"] = "evaluate"
    /\ openPages["terms"] = 1
    /\ openPages["privacy"] = 1
    /\ result.termsOfService = NullText
    /\ result.privacyPolicy = NullText


\* ---------------------------------------------------------------------
\* Which failures are retried
\* ---------------------------------------------------------------------

\* The request of invocation t that this step sent was rejected.
Rejected(t) ==
    /\ call[t].status = "active"
    /\ call'[t].requests = call[t].requests + 1
    /\ call'[t].status # "returned"

\* The rejection was rethrown at once: nothing counted, no wait computed.
RethrownAtOnce(t) ==
    /\ call'[t].status = "thrown"
    /\ call'[t].retryCount = call[t].retryCount
    /\ call'[t].backoffTime = call[t].backoffTime
    /\ call'[t].retryAfterWait = 0

Waiting(t) == call[t].status = "active" /\ call[t].retryCount > 0

\* C30: when the rate-limit answer carries a retry-after header the wait
\* before the next request is the header's duration, and the exponential
\* backoff is applied only when there is no header: the two waits are
\* alternatives and never added.
C30_HeaderWaitReplacesBackoff ==
    \A t \in Tasks :
      Waiting(t) =>
        IF call[t].lastError.kind = "retryAfter" /\ call[t].client = "openai"
        THEN call[t].retryAfterWait = RetryAfterMs /\ call[t].backoffTime = 0
        ELSE call[t].retryAfterWait = 0 /\ call[t].backoffTime > 0


\* ---------------------------------------------------------------------
\* What the later passes search for
\* ---------------------------------------------------------------------

\* C25: the cascade never revisits a link already resolved by an earlier
\* pass: FooterPass and MenuPass classify only for the categories the
\* earlier passes left unresolved, and never search again for a category
\* that is resolved already.
C25_OnlyUnresolvedSearched ==
    \A c \in Categories :
        /\ mainLinks[c] # null => footerLinks[c] = null
        /\ (mainLinks[c] # null \/ footerLinks[c] # null) =>
              (menuFound[c] = null /\ menuLinks[c] = null)

\* ---------------------------------------------------------------------
\* One link in several slots
\* ---------------------------------------------------------------------

\* The predicate of category c in findComplianceLinks and in findFooterLinks.
mainAccepts(c, a) ==
    CASE c = "termsLink" -> isTermsLink(Link(a))
      [] c = "privacyLink" -> isPrivacyLink(Link(a))
      [] c = "cookieLink" -> isCookieLink(Link(a))

footerAccepts(c, a) ==
    CASE c = "termsLink" -> isFooterTermsLink(Link(a))
      [] c = "privacyLink" -> isFooterPrivacyLink(Link(a))
      [] c = "cookieLink" -> isFooterCookieLink(Link(a))

\* Link a stands in `links` before every other link that `accepts` takes for c.
leads(a, c, links, accepts(_, _)) ==
    \E i \in 1..Len(links) :
        /\ links[i] = a
        /\ accepts(c, a)
        /\ \A j \in 1..(i - 1) : ~accepts(c, links[j])

\* C26: the slots are filled independently: a link that already fills the
\* slot of one category fills the slot of every other category for which it
\* is the first match as well, on the main page and in the footer.
C26_SlotsIndependent ==
    \A c1, c2 \in Categories :
        /\ (pc \in {"footer", "gate"} /\ mainLinks[c1] # null
              /\ leads(mainLinks[c1], c2, dom.links, mainAccepts))
             => mainLinks[c2] = mainLinks[c1]
        /\ (pc = "gate" /\ ran("FooterPass") /\ footerLinks[c1] # null
              /\ leads(footerLinks[c1], c2, footerAnchors(dom), footerAccepts))
             => footerLinks[c2] = footerLinks[c1]

\* C26 witness: one link of the main page fills the privacy slot and the
\* cookie slot, although a link that is a cookie link only follows it.
C26_Witness ==
    /\ pc = "gate"
    /\ mainLinks.privacyLink # null
    /\ mainLinks.cookieLink = mainLinks.privacyLink
    /\ \E i \in 1..Len(dom.links) :
          /\ dom.links[i] # mainLinks.cookieLink
          /\ isCookieLink(Link(dom.links[i]))
          /\ ~isPrivacyLink(Link(dom.links[i]))


\* ---------------------------------------------------------------------
\* The keyword lists of the passes
\* ---------------------------------------------------------------------

\* A keyword of `keys` occurs in the text or in the address of anchor a.
inTextOrHref(a, keys) ==
    \E k \in keys : Includes(Link(a).text, k) \/ Includes(Link(a).href, k)

\* A text keyword occurs in the text or an address keyword in the address.
inOwnField(a, textKeys, hrefKeys) ==
    \/ \E k \in textKeys : Includes(ToLowerCase(Trim(textContent[a])), k)
    \/ \E k \in hrefKeys : Includes(href[a], k)

\* The one keyword set of a category, were there one: the keywords of
\* findComplianceLinks.
termsKeywords == MainTermsText \cup MainTermsHref
privacyKeywords == MainPrivacyText \cup MainPrivacyHref
cookieKeywords == MainCookieText \cup MainCookieHref

someLink(links, P(_)) == \E i \in 1..Len(links) : P(links[i])

\* C27: in every pass a link matches a category exactly when its lowercased
\* text or its address contains a keyword of the single keyword set of the
\* category, each keyword being tested against both; MainPage, FooterPass
\* and MenuPass use the same set.
C27_OneKeywordSet ==
    /\ pc \in {"footer", "gate"} =>
          /\ mainLinks.termsLink # null
               <=> someLink(dom.links, LAMBDA a : inTextOrHref(a, termsKeywords))
          /\ mainLinks.privacyLink # null
               <=> someLink(dom.links, LAMBDA a : inTextOrHref(a, privacyKeywords))
          /\ mainLinks.cookieLink # null
               <=> someLink(dom.links, LAMBDA a : inTextOrHref(a, cookieKeywords))
    /\ (pc = "gate" /\ ran("FooterPass")) =>
          /\ footerLinks.termsLink # null
               <=> someLink(footerAnchors(dom), LAMBDA a : inTextOrHref(a, termsKeywords))
          /\ footerLinks.privacyLink # null
               <=> someLink(footerAnchors(dom), LAMBDA a : inTextOrHref(a, privacyKeywords))
          /\ footerLinks.cookieLink # null
               <=> someLink(footerAnchors(dom), LAMBDA a : inTextOrHref(a, cookieKeywords))
    /\ \A a \in AnchorIds :
          /\ a = menuFound.termsLink => inTextOrHref(a, termsKeywords)
          /\ a = menuFound.privacyLink => inTextOrHref(a, privacyKeywords)
          /\ a = menuFound.cookieLink => inTextOrHref(a, cookieKeywords)

\* C27 (amended): each pass has, for each category, a list of text keywords
\* and a list of address keywords of its own: a link matches when its
\* lowercased text contains a text keyword or its address contains an
\* address keyword of that pass and category.
C27_KeywordListsPerPass ==
    /\ pc \in {"footer", "gate"} =>
          /\ mainLinks.termsLink # null
               <=> someLink(dom.links,
                      LAMBDA a : inOwnField(a, MainTermsText, MainTermsHref))
          /\ mainLinks.privacyLink # null
               <=> someLink(dom.links,
                      LAMBDA a : inOwnField(a, MainPrivacyText, MainPrivacyHref))
          /\ mainLinks.cookieLink # null
               <=> someLink(dom.links,
                      LAMBDA a : inOwnField(a, MainCookieText, MainCookieHref))
    /\ (pc = "gate" /\ ran("FooterPass")) =>
          /\ footerLinks.termsLink # null
               <=> someLink(footerAnchors(dom),
                      LAMBDA a : inOwnField(a, FooterTermsText, FooterTermsHref))
          /\ footerLinks.privacyLink # null
               <=> someLink(footerAnchors(dom),
                      LAMBDA a : inOwnField(a, FooterPrivacyText, FooterPrivacyHref))
          /\ footerLinks.cookieLink # null
               <=> someLink(footerAnchors(dom),
                      LAMBDA a : inOwnField(a, FooterCookieText, FooterCookieHref))
    /\ \A a \in AnchorIds :
          /\ a = mainLinks.termsLink => inOwnField(a, MainTermsText, MainTermsHref)
          /\ a = mainLinks.privacyLink => inOwnField(a, MainPrivacyText, MainPrivacyHref)
          /\ a = mainLinks.cookieLink => inOwnField(a, MainCookieText, MainCookieHref)
          /\ a = footerLinks.termsLink => inOwnField(a, FooterTermsText, FooterTermsHref)
          /\ a = footerLinks.privacyLink
                => inOwnField(a, FooterPrivacyText, FooterPrivacyHref)
          /\ a = footerLinks.cookieLink => inOwnField(a, FooterCookieText, FooterCookieHref)
          /\ a = menuFound.termsLink => inOwnField(a, MenuTermsText, MenuTermsHref)
          /\ a = menuFound.privacyLink => inOwnField(a, MenuPrivacyText, MenuPrivacyHref)
          /\ a = menuFound.cookieLink => inOwnField(a, MenuCookieText, MenuCookieHref)

\* C27 witness: the footer pass resolved the privacy category with a link
\* that the keywords of the main page do not know.
C27_Witness ==
    /\ pc = "gate"
    /\ ran("FooterPass")
    /\ footerLinks.privacyLink # null
    /\ ~inOwnField(footerLinks.privacyLink, MainPrivacyText, MainPrivacyHref)
    /\ mainLinks.privacyLink = null


\* ---------------------------------------------------------------------
\* The handler and the pipeline
\* ---------------------------------------------------------------------

\* The request strings that are well-formed absolute URLs.
WellFormedAbsolute ==
    { <<"h", "t", "t", "p", "s", ":", "/", "/", "x", ".", "i", "o">>,
      <<"H", "T", "T", "P", ":", "/", "/", "x", ".", "i", "o", "/", "a">>,
      <<" ", "h", "t", "t", "p", "s", ":", "/", "/", "x", ".", "i", "o", " ">>,
      <<"m", "a", "i", "l", "t", "o", ":", "a">> }

scrapeWebsiteCalled == pc # "idle" \/ invocations > 0

\* C22: scrapeWebsite is called only with a url that passed the validation:
\* a request whose body gives no url, or a url that is no well-formed
\* absolute URL, is answered with status 400 and scrapeWebsite is not called.
C22_ValidatedBeforePipeline ==
    /\ scrapeWebsiteCalled =>
          request.body = "url" /\ request.url \in WellFormedAbsolute
    /\ (handler = "responded"
          /\ (request.body = "noUrl"
                \/ (request.body = "url" /\ request.url \notin WellFormedAbsolute)))
         => response.status = 400 /\ ~scrapeWebsiteCalled

\* C22 witness: a url with a scheme but no host was answered with 400, the
\* pipeline untouched.
C22_Witness ==
    /\ handler = "responded"
    /\ request.url = <<"h", "t", "t", "p", ":", "/", "/">>
    /\ response.status = 400
    /\ pc = "idle"


\* ---------------------------------------------------------------------
\* What the handler answers to a failure
\* ---------------------------------------------------------------------

GenericFailure == "Failed to analyze website"

\* The handler has answered a request that failed: the body could not be
\* read, scrapeWebsite raised, or the analysis raised.
bodyFailed == request.body \in {"unreadable", "null"}
pipelineRaised == pc = "raised"
analysisRaised == pc = "returned" /\ response.status # 200
failureAnswered ==
    handler = "responded" /\ (bodyFailed \/ pipelineRaised \/ analysisRaised)

\* The response names the url of the request.
carriesUrl ==
    /\ request.url # <<>>
    /\ response.details.url = request.url

\* C23: every uncaught failure of a request (pipeline raise, analysis raise,
\* unreadable body) is answered with status 500, the generic failure message,
\* the url and the underlying error string.
C23_FailureCarriesUrl ==
    failureAnswered =>
        /\ response.status = 500
        /\ response.error = GenericFailure
        /\ response.details # NoResponse.details
        /\ request.body = "url" => carriesUrl

\* C23 (amended): every uncaught failure is answered with status 500, the
\* generic failure message and the underlying error string; the url is in
\* that string exactly when scrapeWebsite raised after its browser was
\* launched, and nowhere in the response otherwise.
C23_FailureCarriesErrorString ==
    /\ handler \in {"POST", "scraping", "responded"}
    /\ handler = "responded" => response.status \in {200, 400, 500}
    /\ failureAnswered =>
          /\ response.status = 500
          /\ response.error = GenericFailure
          /\ response.details # NoResponse.details
          /\ carriesUrl <=> (pipelineRaised /\ error.at # "browser")

\* C23 witness: the root page could not be loaded, and the 500 response
\* names the url inside its error string.
C23_Witness ==
    /\ handler = "responded"
    /\ pc = "raised"
    /\ error.at = "root"
    /\ response.status = 500
    /\ carriesUrl


\* ---------------------------------------------------------------------
\* What one invocation leaves to the next
\* ---------------------------------------------------------------------

\* scrapeWebsite is at its first line with nothing but new locals.
FreshLocals ==
    /\ browser = "none"
    /\ openPages = NoPages
    /\ cascadeVars = <<NoPage, <<>>, NoLinks, NoLinks, NoLinks, <<>>, 0, NoLinks, NoLinks>>
    /\ error = NoError
    /\ \A t \in Tasks : tpc[t] = "off" /\ call[t] = NoCall
    /\ combined = NoSplit
    /\ result = NoResult

\* This step is the launch of the browser, with the setup before it.
Launches == pc = "launch" /\ pc' # "launch"

\* C24: the pipeline is stateless between invocations: nothing written by
\* one invocation survives it, and what an invocation does (its setup
\* checks among the rest) does not depend on the invocations before it.
C24_Stateless ==
    /\ [](pc = "launch" => FreshLocals /\ ~isPlaywrightVerified)
    /\ [][(Launches /\ variant = "concurrent") => setupChecks' = setupChecks + 1]_vars

\* C24 (amended): one flag of the concurrent variant survives: it is set by
\* the first invocation whose installation check completes and never
\* reset, and an invocation makes the installation check exactly when the
\* flag is not set; everything else is new in each invocation, and the
\* sequential variant keeps nothing.
C24_OnlyTheFlagSurvives ==
    /\ [](pc = "launch" => FreshLocals)
    /\ [](variant = "sequential" => ~isPlaywrightVerified /\ setupChecks = 0)
    /\ [](setupChecks <= invocations)
    /\ [][isPlaywrightVerified => isPlaywrightVerified']_vars
    /\ [][(Launches /\ variant = "concurrent") =>
            /\ setupChecks' = setupChecks + 1 <=> ~isPlaywrightVerified
            /\ setupChecks' = setupChecks <=> isPlaywrightVerified
            /\ browser' = "open" => isPlaywrightVerified']_vars

\* C24 witness: the second invocation has launched its browser without the
\* installation check, which the first one made.
C24_Witness ==
    /\ variant = "concurrent"
    /\ invocations = 2
    /\ pc = "newPage"
    /\ isPlaywrightVerified
    /\ setupChecks = 1


\* ---------------------------------------------------------------------
\* The text put into the prompt
\* ---------------------------------------------------------------------

Truncated == \E t \in PageTasks : tpc[t] = "call"

\* The characters of the marker.
MarkerChars == <<".", ".", ".", "[", "t", "r", "u", "n", "c", "a", "t", "e", "d", "]">>

\* The character at place i (from 1) of a text.
RECURSIVE charAt(_, _)
charAt(text, i) ==
    IF i <= Head(text).n THEN Head(text).c ELSE charAt(Tail(text), i - Head(text).n)

\* The first k characters of a are the first k characters of b.
RECURSIVE samePrefix(_, _, _)
samePrefix(a, b, k) ==
    IF k = 0 THEN TRUE
    ELSE IF a = <<>> \/ b = <<>> THEN FALSE
    ELSE LET m == Min(k, Min(Head(a).n, Head(b).n))
             rest(t) == IF Head(t).n = m THEN Tail(t)
                        ELSE <<[c |-> Head(t).c, n |-> Head(t).n - m]>> \o Tail(t)
         IN Head(a).c = Head(b).c /\ samePrefix(rest(a), rest(b), k - m)

\* C21: a page text longer than the cap goes into the prompt as its first
\* cap characters followed by the truncation marker, cap + marker length
\* characters in all; a text of at most cap characters goes in unchanged.
C21_PrefixPlusMarker ==
    Truncated =>
        IF length(pageContent) > 80000
        THEN /\ length(truncatedContent) = 80000 + Len(MarkerChars)
             /\ samePrefix(truncatedContent, pageContent, 80000)
             /\ \A j \in 1..Len(MarkerChars) :
                   charAt(truncatedContent, 80000 + j) = MarkerChars[j]
        ELSE truncatedContent = pageContent

\* C21 witness: a text one character over the cap, whose last characters
\* are full stops as the first ones of the marker are, was cut.
C21_Witness ==
    /\ Truncated
    /\ length(pageContent) = 80001
    /\ length(truncatedContent) = 80014
    /\ charAt(pageContent, 79999) = "."
    /\ charAt(truncatedContent, 80004) = "["


\* ---------------------------------------------------------------------
\* The two implementations side by side
\* ---------------------------------------------------------------------

otherVariant == IF variant = "sequential" THEN "concurrent" ELSE "sequential"

\* The retry loop of the other implementation at the same call site, after
\* the same answers of the service.
twin(t) ==
    [call[t] EXCEPT
        !.client = clientAt(otherVariant, t),
        !.retries = retriesAt(otherVariant, t, IF tpc[t] = "call2" THEN "call2" ELSE "call")]

\* Both loops are still running after the answers so far.
comparable(t) ==
    /\ t # "analyze"
    /\ call[t].status = "active"
    /\ call[t].retryCount <= Min(call[t].retries, twin(t).retries)

\* Both loops go on in the same way when the service answers `outcome`.
sameStep(t, outcome) ==
    LET mine == callOpenAIWithRetry(call[t], outcome)
        other == callOpenAIWithRetry(twin(t), outcome)
    IN /\ mine.status = other.status
       /\ mine.requests = other.requests
       /\ mine.retryCount = other.retryCount

\* The extractions scrapeWebsite makes for the links resolved.
extractionsFor(r) ==
    {t \in PageTasks :
        CASE t = "terms" -> r.termsLink # null
          [] t = "combined" ->
                r.privacyLink # null /\ r.cookieLink # null
                    /\ href[r.privacyLink] = href[r.cookieLink]
          [] t = "privacy" ->
                r.privacyLink # null
                    /\ (r.cookieLink = null \/ href[r.privacyLink] # href[r.cookieLink])
          [] t = "cookie" ->
                r.cookieLink # null
                    /\ (r.privacyLink = null \/ href[r.privacyLink] # href[r.cookieLink])}

treatedAlike(t, outcome) ==
    \/ outcome = Ok
    \/ /\ outcome.kind \in RateLimitKinds
       /\ call[t].retryCount < Min(call[t].retries, twin(t).retries)

\* This step leaves the gate of the cookie derivation behind.
PassesDeriveGate ==
    /\ pc = (IF variant = "sequential" THEN "afterPrivacy" ELSE "awaitAll")
    /\ pc' # pc

Sends(t) == call[t].status = "active" /\ call'[t].requests = call[t].requests + 1

\* The configured model names a 'gpt-4' model.
NamesGpt4(model) == Includes(model, <<"g", "p", "t", "-", "4">>)

\* C31 as stated: a request carries gpt-3.5-turbo if and only if retryCount
\* has reached 3 and the configured model contains 'gpt-4'; every other
\* request carries the configured model, and a call that has sent a request
\* with gpt-3.5-turbo in place of its model sends no later request with
\* its model.
C31_FallbackIffThreeRateLimits ==
    [][\A t \in Tasks :
          Sends(t) =>
            /\ call'[t].requestModel = FallbackModel
                 <=> (call[t].retryCount >= 3 /\ NamesGpt4(call[t].model))
            /\ call'[t].requestModel # FallbackModel
                 => call'[t].requestModel = call[t].model
            /\ (call[t].requests > 0 /\ call[t].requestModel # call[t].model)
                 => call'[t].requestModel # call[t].model]_vars

\* C31, amended: the loop of services/scrapingService.ts puts gpt-3.5-turbo
\* in the place of the configured model if and only if three requests of the
\* call have been rejected as rate limited and the configured model contains
\* 'gpt-4'; every other request, in every copy of the loop, carries the
\* configured model, which is gpt-3.5-turbo itself when the call site passes
\* it, from the first request on; a call that has replaced its model does
\* not return to it.
C31_ReplacedIffThreeRateLimits ==
    [][\A t \in Tasks :
          Sends(t) =>
            LET replaced == call'[t].requestModel # call[t].model IN
            /\ replaced
                 <=> /\ call[t].client = "openai"
                     /\ call[t].requests >= 3
                     /\ call[t].retryCount = call[t].requests
                     /\ call[t].lastError.kind \in RateLimitKinds
                     /\ NamesGpt4(call[t].model)
            /\ replaced => call'[t].requestModel = FallbackModel
            /\ call[t].model = FallbackModel => call'[t].requestModel = FallbackModel
            /\ (call[t].requests > 0 /\ call[t].requestModel # call[t].model)
                 => replaced]_vars

\* The fourth request of a call with the default model has gone out under
\* gpt-3.5-turbo.
C31_Witness ==
    \E t \in Tasks :
        /\ call[t].client = "openai"
        /\ call[t].model = DefaultModel
        /\ call[t].requests = 4
        /\ call[t].requestModel = FallbackModel

\* ------------------------------------------------------------------------
\* C32: the browser is closed on every exit
\* ------------------------------------------------------------------------

\* scrapeWebsite has returned or raised.
Exited == pc \in {"returned", "raised"}

\* chromium.launch gave scrapeWebsite a browser.
Launched == error # Err("launch", "browser")

\* C32: once the browser was launched, scrapeWebsite has closed it when it
\* has returned a result and when it has raised, wherever it raised; and
\* it closes it nowhere but on its way out.
C32_BrowserClosedOnExit ==
    /\ (Exited /\ Launched) => browser = "closed"
    /\ browser = "closed" => Exited

\* scrapeWebsite has raised from a pass of the cascade that followed the
\* main page pass, and the browser is closed.
C32_Witness ==
    /\ pc = "raised"
    /\ error = Err("evaluate", "root")
    /\ Len(passLog) >= 2
    /\ browser = "closed"

\* ------------------------------------------------------------------------
\* C33: the browser outlives the extraction tasks
\* ------------------------------------------------------------------------

\* Task t has a page open, with its navigation or its DOM query not yet
\* answered.
InFlight(t) == openPages[t] > 0 /\ tpc[t] \in {"goto", "evaluate"}

\* C33: in the concurrent variant browser.close() runs only when no
\* extraction task holds an open page or has a navigation or a DOM query in
\* flight, whichever way the tasks interleave and whichever of them fails.
C33_ClosedAfterEveryTask ==
    [][(variant = "concurrent" /\ browser = "open" /\ browser' = "closed")
          => \A t \in PageTasks : ~InFlight(t)]_vars

\* ------------------------------------------------------------------------
\* C37: extractions without a key
\* ------------------------------------------------------------------------

\* The extractions that test the key.
KeyTasks == DocTasks \cup {"derive"}

\* The variable of scrapeWebsite that holds what task t returned.
returnOf(t) ==
    CASE t = "terms" -> result.termsOfService
      [] t = "privacy" -> result.privacyPolicy
      [] OTHER -> result.cookiePolicy

\* C37: while the key is not configured, no step of a document extraction
\* or of the cookie derivation opens a page, starts a navigation or a DOM
\* query, or sends a request, and the step that ends the extraction
\* returns its "key not found" failure string.
C37_NoKeyNoWork ==
    [][~apiKey =>
          \A t \in KeyTasks :
            /\ t \in DocTasks => openPages'[t] = 0
            /\ tpc'[t] \notin {"goto", "evaluate"}
            /\ call'[t].requests = 0
            /\ (tpc[t] # "done" /\ tpc'[t] = "done")
                 => /\ returnOf(t)' = KeyNotFound(t)
                    /\ returnOf(t)'.kind = "failed"]_vars

\* Without a key the privacy extraction and, after it, the cookie
\* derivation have both returned their failure strings.
C37_Witness ==
    /\ ~apiKey
    /\ tpc["privacy"] = "done"
    /\ tpc["derive"] = "done"
    /\ result.privacyPolicy = KeyNotFound("privacy")
    /\ result.cookiePolicy = KeyNotFound("derive")

\* ------------------------------------------------------------------------
\* C34: one installation check per process
\* ------------------------------------------------------------------------

\* Invocation i makes the installation check in this step.
Checks(i) == launchers[i] = "idle" /\ launchers'[i] # "idle" /\ setupChecks' > setupChecks

\* C34: the installation check runs at most once per process: no
\* invocation makes it once another invocation has started it, whether
\* that one is still installing or is done.
C34_CheckedOnce ==
    [][\A i \in 1..MaxInvocations : Checks(i) => setupChecks = 0]_vars

\* ------------------------------------------------------------------------
\* C35: the retry loop ends, with a response or with the latest error
\* ------------------------------------------------------------------------

\* What the loop of call c does when the service gives `outcome` to its
\* next request: it returns exactly when the request succeeded, it throws
\* nothing but the error of that request, and it goes on only with one
\* retry more counted and at most `retries` of them.
endsOrCounts(c, outcome) ==
    LET next == callOpenAIWithRetry(c, outcome) IN
    /\ next.requests = c.requests + 1
    /\ next.status = "returned" <=> outcome = Ok
    /\ next.status = "thrown" => (outcome # Ok /\ next.lastError = outcome)
    /\ next.status = "active"
         => (next.retryCount = c.retryCount + 1 /\ next.retryCount <= next.retries)

\* C35: in each copy of callOpenAIWithRetry, whatever the service answers,
\* a call sends at most retries + 1 requests; it returns on the first
\* request that succeeds and raises the error of its latest request
\* otherwise; and once it has returned or raised it sends nothing more.
C35_RetryLoopEnds ==
    /\ [](\A t \in Tasks :
            /\ call[t].requests <= call[t].retries + 1
            /\ call[t].status = "active"
                 => \A outcome \in Outcomes : endsOrCounts(call[t], outcome))
    /\ [][\A t \in Tasks :
            call[t].status \in {"returned", "thrown"} => call'[t] = call[t]]_vars

\* A call of the route copy has used up its retries on rate limits and has
\* raised the last of them.
C35_Witness ==
    \E t \in Tasks :
        /\ call[t].client = "route"
        /\ call[t].status = "thrown"
        /\ call[t].requests = call[t].retries + 1
        /\ call[t].lastError = Err("rateLimit", "service")

\* ------------------------------------------------------------------------
\* C36: the pipeline ends
\* ------------------------------------------------------------------------

\* Requests the retry loop of task t may still send.
requestsLeft(t) == call[t].retries - call[t].retryCount + 1

\* How far task t is from its end, in steps of its own and requests of its
\* calls: each position weighs more than all that can follow it.
taskMeasure(t) ==
    CASE tpc[t] = "off" -> 80
      [] tpc[t] = "newPage" -> 70
      [] tpc[t] = "goto" -> 60
      [] tpc[t] = "evaluate" -> 50
      [] tpc[t] = "call" -> 30 + requestsLeft(t)
      [] tpc[t] = "call2" -> 10 + requestsLeft(t)
      [] OTHER -> 0

\* How far scrapeWebsite itself is from its end; in the loop of
\* findMenuLinks the candidates not yet visited count.
pipelineMeasure ==
    CASE pc = "launch" -> 30
      [] pc = "newPage" -> 29
      [] pc = "goto" -> 28
      [] pc = "main" -> 27
      [] pc = "footer" -> 26
      [] pc = "gate" -> 25
      [] pc = "menu" -> 24
      [] pc = "menuLoop" -> 16 + (Len(menuPages) - menuIdx)
      [] pc = "consolidate" -> 15
      [] pc = "extract" -> 10
      [] pc = "awaitAll" -> 8
      [] pc = "afterTerms" -> 6
      [] pc = "afterPrivacy" -> 4
      [] pc = "return" -> 2
      [] pc = "await" -> 1
      [] OTHER -> 0

\* The steps an invocation and its tasks can still take, at most.
measure ==
    pipelineMeasure + taskMeasure("terms") + taskMeasure("privacy")
        + taskMeasure("cookie") + taskMeasure("combined") + taskMeasure("derive")

\* Pages of compliance documents the invocation has asked for.
documentPages == {t \in PageTasks : tpc[t] # "off"}

\* C36: every step of an invocation, whether the operation it awaited
\* succeeded or failed, uses up a measure that is a natural number, so the
\* invocation takes finitely many steps; as long as it has neither
\* returned nor raised a step is possible; and it loads at most 3 secondary
\* pages and at most 3 document pages.
C36_PipelineEnds ==
    /\ [][measure' < measure]_vars
    /\ [](/\ measure >= 0
          /\ pc \notin {"returned", "raised"} => ENABLED <<Next>>_vars
          /\ menuIdx <= 3
          /\ Len(menuPages) <= 3
          /\ Cardinality(documentPages) <= 3)

\* An invocation has returned after three document extractions.
C36_Witness ==
    /\ pc = "returned"
    /\ \A t \in DocTasks : tpc[t] = "done"

\* ------------------------------------------------------------------------
\* C38: the container the text is taken from
\* ------------------------------------------------------------------------

\* page.evaluate has returned.
Selected == \E t \in PageTasks : tpc[t] \in {"evaluated", "call"}

\* The element a selector stands for: the first one, in document order, of
\* the cleaned document that matches it (0 if there is none).
candidate(k) ==
    LET matching(i) ==
            /\ ~document[i].noise
            /\ possiblePolicyContainers[k] \in document[i].selectors
    IN IF \E i \in 1..Len(document) : matching(i)
       THEN CHOOSE i \in 1..Len(document) :
               matching(i) /\ \A j \in 1..(i - 1) : ~matching(j)
       ELSE 0

\* Characters of a text between its leading and its trailing white space.
trimmedLength(text) ==
    LET inner == {i \in 1..Len(text) : text[i].c \notin WhiteSpace} IN
    IF inner = {} THEN 0
    ELSE LET first == CHOOSE i \in inner : \A j \in inner : i <= j
             last == CHOOSE i \in inner : \A j \in inner : j <= i
         IN length(SubSeq(text, first, last))

\* The candidate of the k-th selector has more than 200 characters of
\* trimmed text.
longEnough(k) ==
    candidate(k) # 0 /\ trimmedLength(document[candidate(k)].text) > 200

\* C38: the text is taken from the candidate of the first selector of the
\* list, in the order of the list, whose candidate has more than 200
\* characters of trimmed text; it is taken from the body if and only if
\* the candidate of no selector has.
C38_FirstLongContainer ==
    Selected =>
        /\ policyContainer = 0 <=> \A k \in 1..15 : ~longEnough(k)
        /\ policyContainer # 0 =>
              \E k \in 1..15 :
                 /\ longEnough(k)
                 /\ \A j \in 1..(k - 1) : ~longEnough(j)
                 /\ policyContainer = candidate(k)
                 /\ pageContent = document[candidate(k)].text
        /\ policyContainer = 0 =>
              \A i \in 1..Len(document) :
                 (~document[i].noise /\ trimmedLength(document[i].text) > 0)
                    => length(pageContent) >= length(document[i].text)

\* The first element matches '.privacy' but has only 200 characters once
\* trimmed, and the text was taken from the 'article' after it.
C38_Witness ==
    /\ Selected
    /\ Len(document) = 2
    /\ document[1].selectors = {".privacy"}
    /\ ~document[1].noise
    /\ length(document[1].text) = 203
    /\ document[2].selectors = {"article"}
    /\ policyContainer = 2
    /\ completion = NoCompletion
    /\ analysis = NoAnalysis

\* ------------------------------------------------------------------------
\* C39: the analysis of a document is total
\* ------------------------------------------------------------------------

\* analyzeContentWithOpenAI has come to its end.
Analysed == tpc["analyze"] = "done"

\* The service failed: callOpenAIWithRetry has thrown, at once or after its
\* retries.
ServiceFailed == call["analyze"].status = "thrown"

\* The service answered with a text no part of which is a JSON value.
Unparsable ==
    /\ call["analyze"].status = "returned"
    /\ completion.shape = "complete"
    /\ \A i \in 1..Len(completion.content) : \A j \in i..Len(completion.content) :
          JSONparse(SubSeq(completion.content, i, j)).kind = "SyntaxError"

\* C39: whatever the service answers (JSON, JSON in a code block, text
\* that cannot be parsed, a score that is no number, a failure after the
\* retries), analyzeContentWithOpenAI returns and never raises, and the
\* score it returns is an integer from 0 to 100: 50 when the answer cannot
\* be parsed, 40 when the service failed.
C39_AnalysisTotal ==
    /\ analysis.status # "raised"
    /\ Analysed =>
          /\ analysis.status = "returned"
          /\ \E n \in 0..100 : analysis.score = n * 10
          /\ Unparsable => analysis.score = 500
          /\ ServiceFailed => analysis.score = 400

\* The service was rate limited four times, the first request and three
\* retries, and the analysis returned score 40.
C39_Witness ==
    /\ Analysed
    /\ ServiceFailed
    /\ call["analyze"].requests = 4
    /\ call["analyze"].retryCount = 4
    /\ analysis.status = "returned"
    /\ analysis.score = 400

====
